---- MODULE Spec2Model ----
(***************************************************************************)
(* Guaranteed module generation (EnhancedModuleProcessor) and report       *)
(* compilation (ComprehensiveReportGeneratorV3) of ARQV30 Enhanced v3.0.   *)
(*                                                                         *)
(* Text is abstracted to what the code inspects of it: where it came from  *)
(* (kind, module, attempt, error, session), its length (raw) and its       *)
(* length after str.strip() (stripped).                                    *)
(***************************************************************************)
EXTENDS Integers, Sequences, FiniteSets, TLC

(***************************************************************************)
(* Bounds of the model.                                                    *)
(***************************************************************************)
\* How many entries of modules_config / modules_order a run works on.
MaxModules == 2

\* How many session-store operations (mkdir, open, write) may go wrong in a run.
MaxIOFaults == 3

\* How many posts a list that is captured holds at most.
MaxShotPosts == 2

(***************************************************************************)
(* Program constants.                                                      *)
(***************************************************************************)
\* max_attempts
MaxAttempts == 3

\* an attempt is accepted when len(content.strip()) > 500
MinContentLen == 500

\* fallback is forced when len(content.strip()) < 100
ForcedFallbackLen == 100

\* the compiler's loader accepts a module when len(content.strip()) > 100
MinLoadLen == 100

\* length of the fixed text of the fallback document (every substitution adds to it)
FallbackFixedLen == 2188

\* length of the fixed text of the emergency document (every substitution adds to it)
EmergencyFixedLen == 1320

\* length of the fixed text of the compiler's emergency module
CompilerEmergencyFixedLen == 1632

\* a study phase plans at most 60 seconds
PhaseSeconds == 60

\* the fallback synthesis estimates one source per 100 words
WordsPerSource == 100

\* EnhancedModuleProcessor.modules_config: the keys, in declaration order
ModuleNames ==
    << "anti_objecao", "avatars", "concorrencia", "drivers_mentais",
       "funil_vendas", "insights_mercado", "palavras_chave", "plano_acao",
       "posicionamento", "pre_pitch", "predicoes_futuro", "provas_visuais",
       "metricas_conversao", "estrategia_preco", "canais_aquisicao",
       "cronograma_lancamento" >>

\* mutant: the first two entries of the list are exchanged
ModulesOrderNames_Exchanged ==
    << "avatars", "anti_objecao" >> \o SubSeq(ModuleNames, 3, Len(ModuleNames))

\* ComprehensiveReportGeneratorV3.modules_order
ModulesOrderNames ==
    << "anti_objecao", "avatars", "concorrencia", "drivers_mentais",
       "funil_vendas", "insights_mercado", "palavras_chave", "plano_acao",
       "posicionamento", "pre_pitch", "predicoes_futuro", "provas_visuais",
       "metricas_conversao", "estrategia_preco", "canais_aquisicao",
       "cronograma_lancamento" >>

\* the attributes ComprehensiveReportGeneratorV3.__init__ sets on the instance
ReportGeneratorAttributes == {"modules_order", "module_titles"}

\* the entries of modules_config a run works on
modules_config == SubSeq(ModuleNames, 1, MaxModules)

ModuleSet == {modules_config[i] : i \in 1..Len(modules_config)}

\* the entries of modules_order a compilation works on
modules_order == SubSeq(ModulesOrderNames, 1, MaxModules)

\* the session a run is for
session_id == "s1"

(***************************************************************************)
(* Text values.                                                            *)
(***************************************************************************)
Content(k, m, a, e, s, r, st) ==
    [kind |-> k, module |-> m, attempt |-> a, error |-> e, session |-> s,
     raw |-> r, stripped |-> st]

\* Python None
None == Content("none", "", 0, "", "", 0, 0)

\* no file at the path
NoFile == Content("absent", "", 0, "", "", 0, 0)

\* a file of size 0
EmptyFile == Content("empty", "", 0, "", "", 0, 0)

\* an artifact a previous run of the session left
PriorFile(m) == Content("prior", m, 0, "", session_id, FallbackFixedLen, FallbackFixedLen - 1)

\* what the generation collaborator may return for attempt a of module m:
\* None, "", blanks only, and text around the two thresholds
GenLengths ==
    { <<0, 0>>, <<2, 0>>,
      <<ForcedFallbackLen - 1, ForcedFallbackLen - 1>>,
      <<ForcedFallbackLen, ForcedFallbackLen>>,
      <<MinContentLen + 2, MinContentLen>>,
      <<MinContentLen + 1, MinContentLen + 1>> }

GenReturns(m, a) ==
    {None} \cup {Content("generated", m, a, "", "", l[1], l[2]) : l \in GenLengths}

\* bool(content)
Truthy(c) == c.kind # "none" /\ c.raw > 0

\* content and len(content.strip()) > 500
ValidContent(c) == Truthy(c) /\ c.stripped > MinContentLen

\* mutant: the guard reads "content and len(content.strip()) < 100"
NeedsFallback_LengthOnly(c) == Truthy(c) /\ c.stripped < ForcedFallbackLen

\* not content or len(content.strip()) < 100
NeedsFallback(c) == ~Truthy(c) \/ c.stripped < ForcedFallbackLen

\* mutant: base_data carries no session_id and the default 'N/A' is printed
generate_fallback_module_content_NoSession(module_name, sid) ==
    Content("fallback", module_name, 0, "", "N/A", FallbackFixedLen, FallbackFixedLen - 1)

\* the fallback document: its text has the module's title and name, and the
\* session id that _load_base_data put into base_data
generate_fallback_module_content(module_name, sid) ==
    Content("fallback", module_name, 0, "", sid, FallbackFixedLen, FallbackFixedLen - 1)

generate_emergency_module_content(module_name, error_msg) ==
    Content("emergency", module_name, 0, error_msg, "", EmergencyFixedLen, EmergencyFixedLen - 1)

(***************************************************************************)
(* The session store.                                                      *)
(***************************************************************************)
\* how a write (open(path, 'w') + f.write) may end: done; open raises and the
\* file stays as it was; f.write raises after the truncation; the call returns
\* but the data never reaches the file
WriteOutcomes == {"ok", "open_error", "write_error", "lost"}

\* f.write(None) raises TypeError after the file was truncated
EffectiveOutcome(c, o) == IF c.kind = "none" /\ o = "ok" THEN "write_error" ELSE o

WriteRaises(c, o) == EffectiveOutcome(c, o) \in {"open_error", "write_error"}

\* mutant: the file is opened for appending
WriteFile_Append(fs, m, c, o) ==
    CASE EffectiveOutcome(c, o) = "ok" ->
            [fs EXCEPT ![m] = [c EXCEPT !.raw = fs[m].raw + c.raw,
                                        !.stripped = fs[m].raw + c.stripped]]
      [] EffectiveOutcome(c, o) = "open_error" -> fs
      [] OTHER -> fs

\* open(module_path, 'w') truncates the file, f.write stores the content
WriteFile(fs, m, c, o) ==
    CASE EffectiveOutcome(c, o) = "ok" -> [fs EXCEPT ![m] = c]
      [] EffectiveOutcome(c, o) = "open_error" -> fs
      [] OTHER -> [fs EXCEPT ![m] = EmptyFile]

\* module_path.exists() and module_path.stat().st_size > 0
FileOk(fs, m) == fs[m].kind # "absent" /\ fs[m].raw > 0

\* the write of c to the file of m replaces an artifact that was there
Replaces(fs, m, c, o) == FileOk(fs, m) /\ EffectiveOutcome(c, o) = "ok"

(***************************************************************************)
(* The results record.                                                     *)
(***************************************************************************)
NewResults ==
    [successful_modules |-> 0, failed_modules |-> 0, modules_generated |-> << >>,
     modules_failed |-> << >>, total_modules |-> Len(modules_config)]

InSeq(x, s) == \E i \in 1..Len(s) : s[i] = x

RECURSIVE Without(_, _)
\* [m for m in modules_failed if m.get("module") != module_name]
Without(s, m) ==
    IF s = << >> THEN << >>
    ELSE IF Head(s).module = m THEN Without(Tail(s), m)
    ELSE << Head(s) >> \o Without(Tail(s), m)

\* mutant: the counter is raised and the name is not appended
RecordGenerated_CountOnly(r, m) == [r EXCEPT !.successful_modules = @ + 1]

RecordGenerated(r, m) ==
    [r EXCEPT !.successful_modules = @ + 1, !.modules_generated = Append(@, m)]

RecordFailed(r, m, e, ee) ==
    [r EXCEPT !.failed_modules = @ + 1,
              !.modules_failed = Append(@, [module |-> m, error |-> e, emergency_error |-> ee])]

\* the bookkeeping of _ensure_all_modules_exist after it wrote a module
EnsureBookkeeping(r, m) ==
    IF InSeq(m, r.modules_generated) THEN r
    ELSE [r EXCEPT !.modules_generated = Append(@, m),
                   !.successful_modules = @ + 1,
                   !.modules_failed = Without(@, m),
                   !.failed_modules = IF @ > 0 THEN @ - 1 ELSE @]

(***************************************************************************)
(* The collection record of MassiveDataCollector.                          *)
(*                                                                         *)
(* A result, a post or a source is abstracted to its url ("" when it has   *)
(* none); a list of results is a sequence of urls.                         *)
(***************************************************************************)
\* web_search_data as _execute_massive_web_search creates it
NoWebData ==
    [enhanced_search_results |-> [error |-> "", exa_results |-> << >>,
                                  google_results |-> << >>, other_results |-> << >>],
     production_search_results |-> [error |-> "", results |-> << >>],
     additional_queries_results |-> << >>]

\* social_data as _execute_massive_social_collection creates it
NoSocialData ==
    [all_platforms_data |-> << >>, sentiment_analysis |-> FALSE,
     engagement_metrics |-> [total_posts |-> 0, platforms_active |-> 0],
     trending_topics |-> FALSE, error |-> ""]

\* deep_data as _execute_deep_navigation creates it
NoDeepData ==
    [websailor_navigation |-> [conteudo_consolidado |-> FALSE, fontes_detalhadas |-> << >>],
     quality_metrics |-> FALSE, error |-> ""]

(***************************************************************************)
(* The posts VisualContentCapture ranks.                                   *)
(*                                                                         *)
(* A metric of a post is absent, an integer, or a string that spells an    *)
(* integer (kind "str", as view_count is expected to be by line 334).      *)
(***************************************************************************)
Absent == [kind |-> "absent", n |-> 0]

IntValue(n) == [kind |-> "int", n |-> n]

StrValue(n) == [kind |-> "str", n |-> n]

\* a post without any metric
NoPost ==
    [url |-> "", view_count |-> Absent, like_count |-> Absent, comment_count |-> Absent,
     retweet_count |-> Absent, reply_count |-> Absent,
     likes |-> Absent, comments |-> Absent, shares |-> Absent]

\* no call of _calculate_engagement_score has returned
NoScore == [kind |-> "none", num |-> 0, den |-> 1]

\* salvar_etapa has stored nothing
NoSaved == [massive_data_collection |-> << >>, massive_data_summary |-> << >>]

\* no future has completed
NoFetch == [url |-> "", raised |-> FALSE, length |-> 0]

\* sources_by_type before the statistics are computed: {}
NoSourcesByType ==
    [web_search |-> 0, social_media |-> 0, deep_navigation |-> 0, extracted_content |-> 0]

(***************************************************************************)
(* State.                                                                  *)
(***************************************************************************)
VARIABLES
    pc,             \* where generate_all_modules is
    module_i,       \* index of the module the main loop is at
    attempt,        \* the attempt loop's variable
    content,        \* the local variable content
    err,            \* str(e) of the exception the module's handler caught
    sweep_i,        \* index of the module a reconciliation loop is at
    files,          \* analyses_data/<session>/modules/<name>.md
    modules_dir,    \* whether analyses_data/<session>/modules exists
    results,        \* the results record
    consolidated,   \* modules in relatorio_final_completo.md as the generator wrote it
    calls,          \* calls made to the generation collaborator for the module the loop is at
    sleeps,         \* backoff waits (asyncio.sleep(2)) completed for that module
    raises,         \* calls for that module that ended in an exception
    log,            \* logger.error of the failures that are swallowed: <<event, module>>
    replaced,       \* whether a write of this run replaced an artifact that was there
    ioFaults,       \* store operations that went wrong so far
    cpc,            \* where compile_final_markdown_report is
    available_modules,  \* the compiler's local available_modules (its keys)
    relatorio_final,    \* relatorio_final.md
    compile_result,     \* what compile_final_markdown_report returned
    png_files,          \* how many *.png analyses_data/files/<session> holds
    previous_compile,   \* result and reports of the compilation before this one
    stats_args,         \* the arguments of a call of _generate_report_statistics
    statistics,         \* what that call returned
    cstep,              \* where execute_massive_collection is
    context,            \* whether context has both segmento and produto
    massive_data,       \* the record execute_massive_collection builds
    future_to_url,      \* content extraction: the URLs whose future has not completed
    extracted_content,  \* content extraction: the local list extracted_content
    phase_log,          \* the phases that have resolved, in the order they did
    raised_in,          \* the collaborators whose call raised
    saved,              \* what salvar_etapa has stored, by stage
    hanging,            \* content extraction: the URLs whose extract_content never returns
    accepted,           \* content extraction: the URLs whose fetch returned an entry
    fetched,            \* content extraction: what extract_content did in the fetch
                        \* whose future completed last
    pool_step,          \* the executor of content extraction, by numbers of tasks:
                        \* where _execute_massive_content_extraction is
    candidates,         \* len(all_urls)
    submitted,          \* the tasks submitted to the executor
    queued,             \* the submitted tasks no worker has taken yet
    running,            \* the tasks a worker is running
    appended,           \* len(extracted_content)
    score_args,         \* the arguments of a call of _calculate_engagement_score
    score,              \* what that call returned
    rank_step,          \* where a call of _identify_viral_posts is
    rank_input,         \* its argument social_media_data
    viral_posts,        \* what it returned
    syn_step,           \* where analyze_and_synthesize is
    collection_report,  \* analyses_data/<session>/relatorio_coleta.md
    synthesis_file,     \* analyses_data/<session>/resumo_sintese.json
    analysis_time,      \* the argument analysis_time, in seconds
    total_study_time,   \* the study loop's total_study_time
    synthesis_json,     \* the local synthesis_json
    synthesis_results,  \* the record analyze_and_synthesize builds and returns
    generate_calls,     \* calls made to enhanced_ai_manager.generate_with_tools
    shot_step,          \* where capture_viral_posts_screenshots is
    shot_posts,         \* what its call of _identify_viral_posts returned
    shot_i,             \* the capture loop's index i
    capture_results,    \* the record capture_viral_posts_screenshots builds and returns
    driver,             \* self.driver
    drivers_opened,     \* the drivers _setup_driver has returned
    drivers_quit        \* the calls of driver.quit(), by how they ended

\* module generation and report compilation
reportVars ==
    << pc, module_i, attempt, content, err, sweep_i, files, modules_dir,
       results, consolidated, calls, sleeps, raises, log, replaced,
       ioFaults, cpc, available_modules, relatorio_final, compile_result, png_files,
       previous_compile >>

\* a call of _generate_report_statistics on its own
statsVars == << stats_args, statistics >>

\* execute_massive_collection
collectorVars == << cstep, context, massive_data, future_to_url, extracted_content,
                    phase_log, raised_in, saved, hanging, accepted, fetched >>

\* the executor of _execute_massive_content_extraction
poolVars == << pool_step, candidates, submitted, queued, running, appended >>

\* a call of _calculate_engagement_score on its own
scoreVars == << score_args, score >>

\* a call of _identify_viral_posts
rankVars == << rank_step, rank_input, viral_posts >>

\* capture_viral_posts_screenshots
shotVars == << shot_step, shot_posts, shot_i, capture_results, driver,
               drivers_opened, drivers_quit >>

\* VisualContentCapture
captureVars == << scoreVars, rankVars, shotVars >>

\* analyze_and_synthesize
synthVars == << syn_step, collection_report, synthesis_file, analysis_time,
                total_study_time, synthesis_json, synthesis_results, generate_calls >>

\* what module generation and report compilation leave alone
restVars == << statsVars, collectorVars, poolVars, captureVars, synthVars >>

\* what execute_massive_collection leaves alone
nonCollectorVars == << reportVars, statsVars, poolVars, captureVars, synthVars >>

\* what the executor leaves alone
nonPoolVars == << reportVars, statsVars, collectorVars, captureVars, synthVars >>

\* what VisualContentCapture leaves alone
nonCaptureVars == << reportVars, statsVars, collectorVars, poolVars, synthVars >>

\* what analyze_and_synthesize leaves alone
nonSynthVars == << reportVars, statsVars, collectorVars, poolVars, captureVars >>

vars == << reportVars, restVars >>

\* what the module generator leaves alone of the compiler
compilerVars == << cpc, available_modules, relatorio_final, compile_result,
                   png_files, previous_compile >>

\* what the compiler leaves alone of the module generator
processorVars == << pc, module_i, attempt, content, err, sweep_i, results, calls,
                    sleeps, raises, log, replaced >>

N == Len(modules_config)

\* a report file that was not written
NoReport == [writer |-> "none", sections |-> << >>, failed |-> << >>]

\* a result without estatisticas_relatorio
NoStatistics ==
    [total_modules |-> 0, modules_compiled |-> 0, modules_missing |-> 0,
     success_rate |-> [num |-> 0, den |-> 1], screenshots_included |-> 0]

\* compile_final_markdown_report has not returned
NoResult ==
    [success |-> FALSE, error |-> "not_run", modules_compiled |-> 0,
     screenshots_included |-> 0, statistics |-> NoStatistics]

\* no compilation came before
NoPrevious == [result |-> NoResult, final |-> NoReport, complete |-> NoReport]

\* the PNG files a session may hold when it is compiled
PngFileCounts == {0, 2}

\* the store may fail an operation while the fault budget lasts
Fault(o) ==
    /\ o = "ok" \/ ioFaults < MaxIOFaults
    /\ ioFaults' = IF o = "ok" THEN ioFaults ELSE ioFaults + 1

\* _generate_report_statistics is not being followed
StatsIdle ==
    /\ stats_args = [modules |-> {}, screenshots |-> 0, report_content |-> 0,
                     complete_report |-> 0]
    /\ statistics = NoStatistics

\* the session before generate_all_modules and compile_final_markdown_report
ReportInit ==
    /\ pc = "idle"
    /\ module_i = 0
    /\ attempt = 0
    /\ content = None
    /\ err = ""
    /\ sweep_i = 0
    /\ \E S \in SUBSET ModuleSet :
        files = [m \in ModuleSet |-> IF m \in S THEN PriorFile(m) ELSE NoFile]
    /\ modules_dir \in BOOLEAN
    /\ (\E m \in ModuleSet : files[m] # NoFile) => modules_dir
    /\ results = NewResults
    /\ consolidated = NoReport
    /\ calls = 0
    /\ sleeps = 0
    /\ raises = 0
    /\ log = {}
    /\ replaced = FALSE
    /\ ioFaults = 0
    /\ cpc = "idle"
    /\ available_modules = {}
    /\ relatorio_final = NoReport
    /\ compile_result = NoResult
    /\ png_files \in PngFileCounts
    /\ previous_compile = NoPrevious

\* the record as execute_massive_collection creates it
NewMassiveData ==
    [metadata |-> [session_id |-> session_id, collection_completed |-> FALSE],
     web_search_data |-> NoWebData,
     social_media_data |-> NoSocialData,
     deep_navigation_data |-> NoDeepData,
     extracted_content |-> << >>,
     statistics |-> [total_sources |-> 0, total_content_length |-> 0,
                     sources_by_type |-> NoSourcesByType]]

\* execute_massive_collection has not been called
CollectorIdle ==
    /\ cstep = "idle"
    /\ context = FALSE
    /\ massive_data = NewMassiveData
    /\ future_to_url = {}
    /\ extracted_content = << >>
    /\ phase_log = << >>
    /\ raised_in = {}
    /\ saved = NoSaved
    /\ hanging = {}
    /\ accepted = {}
    /\ fetched = NoFetch

\* _execute_massive_content_extraction has not been called
PoolIdle ==
    /\ pool_step = "idle"
    /\ candidates = 0
    /\ submitted = 0
    /\ queued = 0
    /\ running = 0
    /\ appended = 0

\* capture_results as capture_viral_posts_screenshots creates it
NewCaptureResults ==
    [session_id |-> session_id, total_posts_analyzed |-> 0, screenshots_captured |-> 0,
     failed_captures |-> 0, viral_posts |-> << >>, errors |-> << >>,
     session_directory |-> FALSE, critical_error |-> FALSE, end_time |-> FALSE]

\* capture_viral_posts_screenshots has not been called
ShotIdle ==
    /\ shot_step = "idle"
    /\ shot_posts = << >>
    /\ shot_i = 0
    /\ capture_results = NewCaptureResults
    /\ driver = "None"
    /\ drivers_opened = 0
    /\ drivers_quit = << >>

\* no method of VisualContentCapture has been called
CaptureIdle ==
    /\ score_args = [platform |-> "", post |-> NoPost]
    /\ score = NoScore
    /\ rank_step = "idle"
    /\ rank_input = << >>
    /\ viral_posts = << >>
    /\ ShotIdle

\* a session without relatorio_coleta.md
NoCollectionReport == [exists |-> FALSE, words |-> 0]

\* no synthesis document
NoSynthesis == [kind |-> "none", total_fontes_analisadas |-> 0]

\* synthesis_results as analyze_and_synthesize creates it
NewSynthesisResults ==
    [session_id |-> session_id, study_phases |-> << >>, synthesis_json |-> NoSynthesis,
     synthesis_json_path |-> "None", success |-> FALSE, error |-> ""]

\* analyze_and_synthesize has not been called, in a session without files of its own
SynthIdle ==
    /\ syn_step = "idle"
    /\ collection_report = NoCollectionReport
    /\ synthesis_file = NoSynthesis
    /\ analysis_time = 0
    /\ total_study_time = 0
    /\ synthesis_json = NoSynthesis
    /\ synthesis_results = NewSynthesisResults
    /\ generate_calls = 0

Init == ReportInit /\ StatsIdle /\ CollectorIdle /\ PoolIdle /\ CaptureIdle /\ SynthIdle

(***************************************************************************)
(* generate_all_modules                                                    *)
(***************************************************************************)
\* results is built and the modules directory is made; when mkdir raises, so
\* does the call. The pipeline generates before it compiles.
Begin ==
    /\ pc = "idle"
    /\ cpc = "idle"
    /\ \E o \in {"ok", "open_error"} :
        /\ Fault(o)
        /\ modules_dir' = (modules_dir \/ o = "ok")
        /\ pc' = IF o = "ok" THEN "loop" ELSE "raised"
        /\ module_i' = IF o = "ok" THEN 1 ELSE module_i
    /\ results' = NewResults
    /\ UNCHANGED << attempt, content, err, sweep_i, files, consolidated, calls,
                    sleeps, raises, log, replaced >>
    /\ UNCHANGED compilerVars
    /\ UNCHANGED restVars

\* the for statement of the main loop: the next module, or the loop is over;
\* calls, sleeps and raises count for the module the loop is at, and content,
\* attempt and err are not read once the loop is over
NextModule ==
    /\ pc = "loop"
    /\ IF module_i <= N
       THEN /\ content' = None
            /\ attempt' = 0
            /\ calls' = 0
            /\ sleeps' = 0
            /\ raises' = 0
            /\ pc' = "generate"
            /\ sweep_i' = sweep_i
       ELSE /\ pc' = "ensure"
            /\ sweep_i' = 1
            /\ calls' = 0
            /\ sleeps' = 0
            /\ raises' = 0
            /\ content' = None
            /\ attempt' = 0
    /\ err' = IF module_i <= N THEN err ELSE ""
    /\ UNCHANGED << module_i, files, modules_dir, results, consolidated,
                    log, replaced, ioFaults >>
    /\ UNCHANGED compilerVars
    /\ UNCHANGED restVars

RetryAllowed_AfterEveryAttempt(a) == a < MaxAttempts

\* attempt < max_attempts - 1: sleep and continue
RetryAllowed(a) == a < MaxAttempts - 1

\* mutant: the break is missing
AfterReturn_NoBreak(c, a) == IF RetryAllowed(a) THEN "backoff" ELSE "save"

\* where the loop goes after the call of attempt a returned c: break on valid
\* content, else sleep and continue while attempts remain, else the loop ends
AfterReturn(c, a) ==
    IF ValidContent(c) THEN "save"
    ELSE IF RetryAllowed(a) THEN "backoff"
    ELSE "save"

\* mutant: the last handler does not assign the fallback document
ContentAfterRaise_Keeps(c, m, a) == c

\* content after the call of attempt a raised: untouched while attempts remain,
\* else the fallback document
ContentAfterRaise(c, m, a) ==
    IF RetryAllowed(a) THEN c ELSE generate_fallback_module_content(m, session_id)

\* the awaited generation call returns c: accepted (break), or a soft failure
\* that is retried after the backoff while attempts remain
GenerateReturns ==
    /\ pc = "generate"
    /\ \E c \in GenReturns(modules_config[module_i], attempt + 1) :
        /\ content' = c
        /\ pc' = AfterReturn(c, attempt)
    /\ calls' = calls + 1
    /\ UNCHANGED << module_i, attempt, err, sweep_i, files, modules_dir, results,
                    consolidated, sleeps, raises, log, replaced, ioFaults >>
    /\ UNCHANGED compilerVars
    /\ UNCHANGED restVars

\* the awaited generation call raises: retried after the backoff while attempts
\* remain, else content becomes the fallback document
GenerateRaises ==
    /\ pc = "generate"
    /\ pc' = IF RetryAllowed(attempt) THEN "backoff" ELSE "save"
    /\ content' = ContentAfterRaise(content, modules_config[module_i], attempt)
    /\ calls' = calls + 1
    /\ raises' = raises + 1
    /\ UNCHANGED << module_i, attempt, err, sweep_i, files, modules_dir, results,
                    consolidated, sleeps, log, replaced, ioFaults >>
    /\ UNCHANGED compilerVars
    /\ UNCHANGED restVars

\* asyncio.sleep(2) returns; continue: range(max_attempts) gives the next
\* attempt or is exhausted
Backoff ==
    /\ pc = "backoff"
    /\ attempt' = attempt + 1
    /\ sleeps' = sleeps + 1
    /\ pc' = IF attempt + 1 < MaxAttempts THEN "generate" ELSE "save"
    /\ UNCHANGED << module_i, content, err, sweep_i, files, modules_dir, results,
                    consolidated, calls, raises, log, replaced, ioFaults >>
    /\ UNCHANGED compilerVars
    /\ UNCHANGED restVars

\* the task is cancelled while it awaits the collaborator or the backoff:
\* CancelledError is no Exception, so no handler of the function catches it
\* and the call is left with its local variables
Cancel ==
    /\ pc \in {"generate", "backoff"}
    /\ pc' = "cancelled"
    /\ content' = None
    /\ attempt' = 0
    /\ err' = ""
    /\ calls' = 0
    /\ sleeps' = 0
    /\ raises' = 0
    /\ UNCHANGED << module_i, sweep_i, files, modules_dir, results, consolidated,
                    log, replaced, ioFaults >>
    /\ UNCHANGED compilerVars
    /\ UNCHANGED restVars

\* mutant: the forced fallback is missing
ContentToSave_NoGuard(c, m) == c

\* what is written after the attempt loop
ContentToSave(c, m) ==
    IF NeedsFallback(c) THEN generate_fallback_module_content(m, session_id) ELSE c

\* whether the module counts after the write: the verification of the file
Verified(fs, m) == FileOk(fs, m)

\* forced fallback, write, verification, bookkeeping
SaveModule ==
    /\ pc = "save"
    /\ LET m == modules_config[module_i]
           c == ContentToSave(content, m)
       IN \E o \in WriteOutcomes :
            /\ Fault(o)
            /\ content' = c
            /\ files' = WriteFile(files, m, c, o)
            /\ replaced' = (replaced \/ Replaces(files, m, c, o))
            /\ IF ~WriteRaises(c, o) /\ Verified(files', m)
               THEN /\ results' = RecordGenerated(results, m)
                    /\ err' = err
                    /\ module_i' = module_i + 1
                    /\ pc' = "loop"
               ELSE /\ results' = results
                    /\ err' = IF WriteRaises(c, o) THEN "OSError" ELSE "not_created"
                    /\ module_i' = module_i
                    /\ pc' = "emergency"
    /\ UNCHANGED << attempt, sweep_i, modules_dir, consolidated, calls, sleeps,
                    raises, log >>
    /\ UNCHANGED compilerVars
    /\ UNCHANGED restVars

\* the module's handler: emergency content is written and the module counted,
\* or, when that write raises, the module is recorded as failed
EmergencyModule ==
    /\ pc = "emergency"
    /\ LET m == modules_config[module_i]
           c == generate_emergency_module_content(m, err)
       IN \E o \in WriteOutcomes :
            /\ Fault(o)
            /\ files' = WriteFile(files, m, c, o)
            /\ replaced' = (replaced \/ Replaces(files, m, c, o))
            /\ IF WriteRaises(c, o)
               THEN /\ results' = RecordFailed(results, m, err, "OSError")
                    /\ log' = log \cup {<< "critical", m >>}
               ELSE /\ results' = RecordGenerated(results, m)
                    /\ log' = log
    /\ module_i' = module_i + 1
    /\ pc' = "loop"
    /\ UNCHANGED << attempt, content, err, sweep_i, modules_dir, consolidated,
                    calls, sleeps, raises >>
    /\ UNCHANGED compilerVars
    /\ UNCHANGED restVars

\* one iteration of _ensure_all_modules_exist; no handler around its write
EnsureStep ==
    /\ pc = "ensure"
    /\ LET m == modules_config[sweep_i]
           c == generate_emergency_module_content(m, "guarantee")
       IN IF FileOk(files, m)
          THEN /\ pc' = IF sweep_i = N THEN "consolidate" ELSE "ensure"
               /\ sweep_i' = sweep_i + 1
               /\ UNCHANGED << files, results, log, replaced, ioFaults >>
          ELSE \E o \in WriteOutcomes :
                /\ Fault(o)
                /\ files' = WriteFile(files, m, c, o)
                /\ replaced' = (replaced \/ Replaces(files, m, c, o))
                /\ log' = log
                /\ IF WriteRaises(c, o)
                   THEN /\ pc' = "raised"
                        /\ UNCHANGED << results, sweep_i >>
                   ELSE /\ results' = EnsureBookkeeping(results, m)
                        /\ pc' = IF sweep_i = N THEN "consolidate" ELSE "ensure"
                        /\ sweep_i' = sweep_i + 1
    /\ UNCHANGED << module_i, attempt, content, err, modules_dir, consolidated,
                    calls, sleeps, raises >>
    /\ UNCHANGED compilerVars
    /\ UNCHANGED restVars

\* the sections _generate_consolidated_report writes: the generated modules
\* whose file exists
ConsolidatedSections(r, fs) ==
    SelectSeq(r.modules_generated, LAMBDA m : fs[m].kind # "absent")

\* mutant: the comparison is inverted
NeedsForce_Inverted(r) == r.successful_modules > r.total_modules

\* results['successful_modules'] < results['total_modules']
NeedsForce(r) == r.successful_modules < r.total_modules

\* _generate_consolidated_report (every exception is swallowed), then the test
\* successful_modules < total_modules
ConsolidatedReport ==
    /\ pc = "consolidate"
    /\ \E o \in {"ok", "open_error"} :
        /\ Fault(o)
        /\ consolidated' =
             IF o = "ok"
             THEN [writer |-> "processor",
                   sections |-> ConsolidatedSections(results, files),
                   failed |-> [i \in 1..Len(results.modules_failed) |->
                                  results.modules_failed[i].module]]
             ELSE consolidated
    /\ IF NeedsForce(results)
       THEN /\ pc' = "force"
            /\ sweep_i' = 1
       ELSE /\ pc' = "done"
            /\ sweep_i' = sweep_i
    /\ UNCHANGED << module_i, attempt, content, err, files, modules_dir, results,
                    calls, sleeps, raises, log, replaced >>
    /\ UNCHANGED compilerVars
    /\ UNCHANGED restVars

\* one module of _force_create_missing_modules
ForceStep ==
    /\ pc = "force"
    /\ LET m == modules_config[sweep_i]
           c == generate_emergency_module_content(m, "guarantee_final")
       IN IF InSeq(m, results.modules_generated)
          THEN UNCHANGED << files, results, log, replaced, ioFaults >>
          ELSE \E o \in WriteOutcomes :
                /\ Fault(o)
                /\ files' = WriteFile(files, m, c, o)
                /\ replaced' = (replaced \/ Replaces(files, m, c, o))
                /\ IF WriteRaises(c, o)
                   THEN /\ log' = log \cup {<< "force_failed", m >>}
                        /\ results' = results
                   ELSE /\ log' = log
                        /\ results' = RecordGenerated(results, m)
    /\ sweep_i' = sweep_i + 1
    /\ pc' = IF sweep_i = N THEN "done" ELSE "force"
    /\ UNCHANGED << module_i, attempt, content, err, modules_dir, consolidated,
                    calls, sleeps, raises >>
    /\ UNCHANGED compilerVars
    /\ UNCHANGED restVars

(***************************************************************************)
(* compile_final_markdown_report                                           *)
(***************************************************************************)
\* content.strip() and len(content.strip()) > 100
Loadable(c) == c.stripped > 0 /\ c.stripped > MinLoadLen

\* _load_available_modules: the names it loads; a missing directory is made
\* and nothing is loaded; a file whose read raises is skipped
load_available_modules(fs, dir, unreadable) ==
    IF ~dir THEN {}
    ELSE {m \in {modules_order[i] : i \in 1..Len(modules_order)} :
            /\ m \in DOMAIN fs
            /\ fs[m].kind # "absent"
            /\ m \notin unreadable
            /\ Loadable(fs[m])}

\* the emergency module of _create_emergency_modules
compiler_emergency_content(m, sid) ==
    Content("emergency", m, 0, "", sid, CompilerEmergencyFixedLen, CompilerEmergencyFixedLen - 1)

\* mutant: the instance has a modules_config and the emergency modules are written
create_emergency_modules_raises_Never == FALSE

\* _create_emergency_modules reads self.modules_config: an AttributeError when
\* the instance has no such attribute, else one emergency module per entry
create_emergency_modules_raises == "modules_config" \notin ReportGeneratorAttributes

\* mutant: the loop walks the loaded modules
ModuleSections_LoadedOnly(modules) ==
    LET loaded == SelectSeq(modules_order, LAMBDA m : m \in modules)
    IN [i \in 1..Len(loaded) |-> [module |-> loaded[i], placeholder |-> FALSE]]

\* the module sections of _compile_report_content and of _create_complete_report:
\* modules_order is walked, a module that was not loaded gets the placeholder
ModuleSections(modules) ==
    [i \in 1..Len(modules_order) |->
        [module |-> modules_order[i], placeholder |-> modules_order[i] \notin modules]]

\* _load_screenshot_paths: one path per PNG file
load_screenshot_paths(n) == n

\* (a / b) * 100, kept as the fraction it is
Percent(a, b) == [num |-> a * 100, den |-> b]

\* _generate_report_statistics: the statistics that count modules and
\* screenshots
report_counts(modules, screenshots) ==
    [total_modules |-> Len(modules_order),
     modules_compiled |-> Cardinality(modules),
     modules_missing |-> Len(modules_order) - Cardinality(modules),
     success_rate |-> Percent(Cardinality(modules), Len(modules_order)),
     screenshots_included |-> screenshots]

\* the except clause of compile_final_markdown_report
CompileFailure(e) ==
    [success |-> FALSE, error |-> e, modules_compiled |-> 0,
     screenshots_included |-> 0, statistics |-> NoStatistics]

\* the module generator is not running
ProcessorQuiet == pc \in {"idle", "done", "raised", "cancelled"}

\* directories, _load_available_modules, and _create_emergency_modules when
\* nothing was loaded
CompileLoad ==
    /\ cpc \in {"idle", "again"}
    /\ ProcessorQuiet
    /\ \E o \in {"ok", "open_error"}, unreadable \in SUBSET ModuleSet :
        /\ o = "ok" \/ ~modules_dir
        /\ \A m \in unreadable : files[m].kind # "absent"
        /\ ioFaults + Cardinality(unreadable) + (IF o = "ok" THEN 0 ELSE 1) <= MaxIOFaults
        /\ ioFaults' = ioFaults + Cardinality(unreadable) + (IF o = "ok" THEN 0 ELSE 1)
        /\ IF o # "ok"
           THEN /\ compile_result' = CompileFailure("OSError")
                /\ cpc' = "returned"
                /\ UNCHANGED << modules_dir, available_modules, files >>
           ELSE LET loaded == load_available_modules(files, modules_dir, unreadable)
                IN /\ modules_dir' = TRUE
                   /\ IF loaded # {}
                      THEN /\ available_modules' = loaded
                           /\ cpc' = "save_final"
                           /\ UNCHANGED << compile_result, files >>
                      ELSE IF create_emergency_modules_raises
                      THEN /\ compile_result' = CompileFailure("AttributeError")
                           /\ cpc' = "returned"
                           /\ UNCHANGED << available_modules, files >>
                      ELSE /\ files' = [m \in ModuleSet |-> compiler_emergency_content(m, session_id)]
                           /\ available_modules' = ModuleSet
                           /\ cpc' = "save_final"
                           /\ UNCHANGED compile_result
    /\ UNCHANGED << relatorio_final, consolidated, png_files, previous_compile >>
    /\ UNCHANGED processorVars
    /\ UNCHANGED restVars

\* _compile_report_content and _save_final_report, which re-raises
CompileSaveFinal ==
    /\ cpc = "save_final"
    /\ \E o \in {"ok", "open_error"} :
        /\ Fault(o)
        /\ IF o = "ok"
           THEN /\ relatorio_final' =
                     [writer |-> "compiler", sections |-> ModuleSections(available_modules),
                      failed |-> << >>]
                /\ cpc' = "save_complete"
                /\ UNCHANGED compile_result
           ELSE /\ compile_result' = CompileFailure("OSError")
                /\ cpc' = "returned"
                /\ UNCHANGED relatorio_final
    /\ UNCHANGED << files, modules_dir, available_modules, consolidated, png_files,
                    previous_compile >>
    /\ UNCHANGED processorVars
    /\ UNCHANGED restVars

\* _create_complete_report and _save_complete_report, which re-raises; then
\* the statistics and the result
CompileSaveComplete ==
    /\ cpc = "save_complete"
    /\ \E o \in {"ok", "open_error"} :
        /\ Fault(o)
        /\ IF o = "ok"
           THEN /\ consolidated' =
                     [writer |-> "compiler", sections |-> ModuleSections(available_modules),
                      failed |-> << >>]
                /\ compile_result' =
                     [success |-> TRUE, error |-> "",
                      modules_compiled |-> Cardinality(available_modules),
                      screenshots_included |-> load_screenshot_paths(png_files),
                      statistics |-> report_counts(available_modules,
                                                   load_screenshot_paths(png_files))]
           ELSE /\ compile_result' = CompileFailure("OSError")
                /\ UNCHANGED consolidated
    /\ cpc' = "returned"
    /\ UNCHANGED << files, modules_dir, available_modules, relatorio_final, png_files,
                    previous_compile >>
    /\ UNCHANGED processorVars
    /\ UNCHANGED restVars

\* no compilation of the session was repeated yet
FirstCompilation == previous_compile = NoPrevious

\* compile_final_markdown_report is called again for the session; the model
\* follows a compilation and one repetition of it
Recompile ==
    /\ cpc = "returned"
    /\ FirstCompilation
    /\ cpc' = "again"
    /\ previous_compile' =
         [result |-> compile_result, final |-> relatorio_final, complete |-> consolidated]
    /\ UNCHANGED << files, modules_dir, available_modules, relatorio_final,
                    compile_result, consolidated, png_files, ioFaults >>
    /\ UNCHANGED processorVars
    /\ UNCHANGED restVars

Next ==
    \/ Begin
    \/ NextModule
    \/ GenerateReturns
    \/ GenerateRaises
    \/ Backoff
    \/ Cancel
    \/ SaveModule
    \/ EmergencyModule
    \/ EnsureStep
    \/ ConsolidatedReport
    \/ ForceStep
    \/ CompileLoad
    \/ CompileSaveFinal
    \/ CompileSaveComplete
    \/ Recompile

Spec == Init /\ [][Next]_vars

(***************************************************************************)
(* _generate_report_statistics as a function of its arguments              *)
(***************************************************************************)
\* the floor of the page estimate
MinPages == 25

\* characters taken for a page
CharsPerPage == 2000

\* lengths of report_content the function is applied to
ReportLengths == {0, 1999, 2000, 49999, 50000, 51999, 52000, 120000}

\* complete_report: None (-1), the empty string, or text of these lengths
CompleteLengths == {-1, 0, 1, 2000, 60000}

\* len(report_content), plus len(complete_report) if complete_report
total_content_length(report_content, complete_report) ==
    report_content + (IF complete_report > 0 THEN complete_report ELSE 0)

\* mutant: min in the place of max
estimated_pages_Min(total) ==
    IF MinPages < total \div CharsPerPage THEN MinPages ELSE total \div CharsPerPage

\* max(25, total_content_length // 2000)
estimated_pages(total) ==
    IF MinPages > total \div CharsPerPage THEN MinPages ELSE total \div CharsPerPage

generate_report_statistics(modules, screenshots, report_content, complete_report) ==
    report_counts(modules, screenshots) @@
    [total_characters |-> total_content_length(report_content, complete_report),
     estimated_pages |->
        estimated_pages(total_content_length(report_content, complete_report)),
     paginas_estimadas |->
        estimated_pages(total_content_length(report_content, complete_report)),
     secoes_geradas |-> Cardinality(modules),
     taxa_completude |-> Percent(Cardinality(modules), Len(modules_order)),
     evidencias_visuais |-> screenshots]

\* the arguments are drawn: any set of loaded modules, a number of
\* screenshots, and the lengths of the two reports
StatsInit ==
    /\ ReportInit
    /\ \A m \in ModuleSet : files[m] = NoFile
    /\ ~modules_dir
    /\ png_files = 0
    /\ stats_args \in [modules : SUBSET ModuleSet, screenshots : PngFileCounts,
                        report_content : ReportLengths, complete_report : CompleteLengths]
    /\ statistics = NoStatistics
    /\ CollectorIdle
    /\ PoolIdle
    /\ CaptureIdle
    /\ SynthIdle

\* the call
GenerateReportStatistics ==
    /\ statistics = NoStatistics
    /\ statistics' = generate_report_statistics(stats_args.modules, stats_args.screenshots,
                                                 stats_args.report_content,
                                                 stats_args.complete_report)
    /\ UNCHANGED stats_args
    /\ UNCHANGED reportVars
    /\ UNCHANGED << collectorVars, poolVars, captureVars, synthVars >>

StatsNext == GenerateReportStatistics

StatsSpec == StatsInit /\ [][StatsNext]_vars

(***************************************************************************)
(* MassiveDataCollector.execute_massive_collection.                        *)
(*                                                                         *)
(* The collaborators (search coordinator, search manager, social manager,  *)
(* navigator, content extractor, salvar_etapa) are outside the repository's*)
(* sources: each call either raises or returns, and what it returns is     *)
(* drawn from a small family.                                              *)
(***************************************************************************)
\* the urls the collaborators may return: a, the same address written with a
\* trailing slash, and b
Urls == {"a", "a/", "b"}

\* str(e) of an exception a collaborator raised
ErrorText == "adapter error"

\* what execute_simultaneous_distinct_search may return
EnhancedReturns ==
    { [exa_results |-> << >>, google_results |-> << >>, other_results |-> << >>],
      [exa_results |-> <<"a">>, google_results |-> << >>, other_results |-> << >>],
      [exa_results |-> <<"a">>, google_results |-> <<"b">>, other_results |-> <<"">>] }

\* what search_with_fallback may return
ProductionReturns == { << >>, <<"b">> }

\* what search_all_platforms may return under 'platforms'
PlatformsReturns ==
    { << >>,
      << [platform |-> "twitter", results |-> <<"a">>] >>,
      << [platform |-> "twitter", results |-> << >>],
         [platform |-> "instagram", results |-> <<"b", "">>] >> }

\* what navigate_and_research_deep may return
WebsailorReturns ==
    { [conteudo_consolidado |-> FALSE, fontes_detalhadas |-> << >>],
      [conteudo_consolidado |-> TRUE, fontes_detalhadas |-> <<"b">>],
      [conteudo_consolidado |-> TRUE, fontes_detalhadas |-> <<"a/", "">>] }

\* the lengths of what extract_content may return (0: None or an empty string)
ContentLengths == {0, 499, 500, 501}

\* the call of salvar_etapa that raises in _save_massive_json, if one does
SaveFaults == { "none", "massive_data_collection", "massive_data_summary" }

\* how many additional queries a run follows at most
MaxQueries == 1

\* _generate_additional_queries: the templates, and the cut of its return
AdditionalTemplates == 8

AdditionalQueriesCap == 5

\* _extract_single_url_content keeps a content longer than this
MinContentChars == 500

\* _execute_massive_content_extraction submits at most this many urls
MaxExtractionUrls == 100

Min(a, b) == IF a < b THEN a ELSE b

\* the urls of a list of results: result.get("url") is truthy
UrlsOf(rs) == { rs[i] : i \in 1..Len(rs) } \ {""}

RECURSIVE UrlsOfAll(_)
\* the urls of a list of entries that each hold a list of results
UrlsOfAll(entries) ==
    IF entries = << >> THEN {}
    ELSE UrlsOf(Head(entries).results) \cup UrlsOfAll(Tail(entries))

RECURSIVE CountAll(_)
\* the number of results of a list of entries that each hold a list of results
CountAll(entries) ==
    IF entries = << >> THEN 0
    ELSE Len(Head(entries).results) + CountAll(Tail(entries))

RECURSIVE SumLengths(_)
SumLengths(items) ==
    IF items = << >> THEN 0 ELSE Head(items).length + SumLengths(Tail(items))

\* _generate_additional_queries: how many queries it returns
generate_additional_queries(ctx) ==
    IF ctx THEN Min(Min(AdditionalTemplates, AdditionalQueriesCap), MaxQueries) ELSE 0

\* the except clauses of _execute_massive_web_search
web_except(e) == [error |-> e, results |-> << >>]

enhanced_except(e) ==
    [error |-> e, exa_results |-> << >>, google_results |-> << >>, other_results |-> << >>]

\* _execute_massive_web_search, given what each call did
execute_massive_web_search(en_raised, en, pr_raised, pr, ad_raised, ad) ==
    [enhanced_search_results |->
        IF en_raised THEN enhanced_except(ErrorText)
        ELSE [error |-> "", exa_results |-> en.exa_results,
              google_results |-> en.google_results, other_results |-> en.other_results],
     production_search_results |->
        IF pr_raised THEN web_except(ErrorText) ELSE [error |-> "", results |-> pr],
     additional_queries_results |->
        [i \in DOMAIN ad |->
            IF ad_raised[i] THEN web_except(ErrorText) ELSE [error |-> "", results |-> ad[i]]]]

\* _analyze_social_engagement
analyze_social_engagement(platforms) ==
    [total_posts |-> CountAll(platforms),
     platforms_active |-> Cardinality({i \in 1..Len(platforms) : platforms[i].results # << >>})]

\* the except clause of _execute_massive_social_collection
social_except_Unmarked(social_data, e) == social_data

social_except(social_data, e) == [social_data EXCEPT !.error = e]

\* _execute_massive_social_collection, given what each call did
execute_massive_social_collection(search_raised, platforms, sentiment_raised) ==
    IF search_raised THEN social_except(NoSocialData, ErrorText)
    ELSE LET found == [NoSocialData EXCEPT !.all_platforms_data = platforms] IN
         IF CountAll(platforms) > 0 /\ sentiment_raised
         THEN social_except(found, ErrorText)
         ELSE [found EXCEPT !.sentiment_analysis = CountAll(platforms) > 0,
                            !.engagement_metrics = analyze_social_engagement(platforms),
                            !.trending_topics = TRUE]

\* the except clause of _execute_deep_navigation
deep_except(deep_data, e) == [deep_data EXCEPT !.error = e]

\* _execute_deep_navigation, given what the call did
execute_deep_navigation(raised, websailor) ==
    IF raised THEN deep_except(NoDeepData, ErrorText)
    ELSE [NoDeepData EXCEPT !.websailor_navigation = websailor,
                            !.quality_metrics = websailor.conteudo_consolidado]

\* _collect_urls_from_web_search
collect_urls_from_web_search(web_data) ==
    UrlsOf(web_data.enhanced_search_results.exa_results)
    \cup UrlsOf(web_data.enhanced_search_results.google_results)
    \cup UrlsOf(web_data.enhanced_search_results.other_results)
    \cup UrlsOf(web_data.production_search_results.results)
    \cup UrlsOfAll(web_data.additional_queries_results)

\* _collect_urls_from_social_data
collect_urls_from_social_data(social_data) == UrlsOfAll(social_data.all_platforms_data)

\* _collect_urls_from_deep_navigation
collect_urls_from_deep_navigation(deep_data) ==
    UrlsOf(deep_data.websailor_navigation.fontes_detalhadas)

\* all_urls of _execute_massive_content_extraction
collect_urls_WebOnly(md) == collect_urls_from_web_search(md.web_search_data)

collect_urls(md) ==
    collect_urls_from_web_search(md.web_search_data)
    \cup collect_urls_from_social_data(md.social_media_data)
    \cup collect_urls_from_deep_navigation(md.deep_navigation_data)

\* len(list(all_urls)[:100])
submit_count_All(n) == n

submit_count(n) == Min(n, MaxExtractionUrls)

\* list(all_urls)[:100]: the sets of urls that may be submitted
SubmittedUrls(all_urls) ==
    { S \in SUBSET all_urls : Cardinality(S) = submit_count(Cardinality(all_urls)) }

\* _extract_single_url_content, given whether extract_content raised and the length
\* of what it returned: the entry it returns, or << >> for None
extract_single_url_content(url, raised, length) ==
    IF ~raised /\ length > MinContentChars
    THEN << [url |-> url, length |-> length] >>
    ELSE << >>

\* the body of the as_completed loop: the list after the future's result
after_future_OnlyIfAllKept(extracted, content_data) ==
    IF content_data # << >> THEN extracted \o content_data ELSE << >>

after_future(extracted, content_data) ==
    IF content_data # << >> THEN extracted \o content_data ELSE extracted

\* sum(stats["sources_by_type"].values())
sum_values_WithoutExtracted(by_type) ==
    by_type.web_search + by_type.social_media + by_type.deep_navigation

sum_values(by_type) ==
    by_type.web_search + by_type.social_media + by_type.deep_navigation
    + by_type.extracted_content

\* sources_by_type of _calculate_final_statistics
sources_by_type(md) ==
    [web_search |->
        Len(md.web_search_data.enhanced_search_results.exa_results)
        + Len(md.web_search_data.enhanced_search_results.google_results)
        + Len(md.web_search_data.enhanced_search_results.other_results)
        + Len(md.web_search_data.production_search_results.results),
     social_media |-> CountAll(md.social_media_data.all_platforms_data),
     deep_navigation |-> Len(md.deep_navigation_data.websailor_navigation.fontes_detalhadas),
     extracted_content |-> Len(md.extracted_content)]

\* _calculate_final_statistics
calculate_final_statistics(md) ==
    [md EXCEPT !.statistics = [total_sources |-> sum_values(sources_by_type(md)),
                               total_content_length |-> SumLengths(md.extracted_content),
                               sources_by_type |-> sources_by_type(md)],
               !.metadata.collection_completed = TRUE]

\* compact_data of _save_massive_json
compact_data_WithContent(md) ==
    [metadata |-> md.metadata,
     statistics |-> md.statistics,
     extracted_content |-> md.extracted_content,
     summary |-> [total_web_sources |-> md.statistics.sources_by_type.web_search,
                  total_social_sources |-> md.statistics.sources_by_type.social_media,
                  total_deep_sources |-> md.statistics.sources_by_type.deep_navigation,
                  total_extracted_content |-> Len(md.extracted_content),
                  total_content_length |-> md.statistics.total_content_length]]

compact_data(md) ==
    [metadata |-> md.metadata,
     statistics |-> md.statistics,
     summary |-> [total_web_sources |-> md.statistics.sources_by_type.web_search,
                  total_social_sources |-> md.statistics.sources_by_type.social_media,
                  total_deep_sources |-> md.statistics.sources_by_type.deep_navigation,
                  total_extracted_content |-> Len(md.extracted_content),
                  total_content_length |-> md.statistics.total_content_length]]

\* _save_massive_json: what is stored when the given call of salvar_etapa raises;
\* the except clause logs, and the second call is not reached after the first raised
save_massive_json(stored, md, fault) ==
    CASE fault = "massive_data_collection" -> stored
      [] fault = "massive_data_summary" ->
            [stored EXCEPT !.massive_data_collection = << md >>]
      [] OTHER ->
            [stored EXCEPT !.massive_data_collection = << md >>,
                           !.massive_data_summary = << compact_data(md) >>]

\* execute_massive_collection is called
CollectorInit ==
    /\ ReportInit
    /\ \A m \in ModuleSet : files[m] = NoFile
    /\ ~modules_dir
    /\ png_files = 0
    /\ StatsIdle
    /\ PoolIdle
    /\ CaptureIdle
    /\ SynthIdle
    /\ cstep = "web_search"
    /\ context \in BOOLEAN
    /\ massive_data = NewMassiveData
    /\ future_to_url = {}
    /\ extracted_content = << >>
    /\ phase_log = << >>
    /\ raised_in = {}
    /\ saved = NoSaved
    /\ hanging = {}
    /\ accepted = {}
    /\ fetched = NoFetch

\* FASE 1: _execute_massive_web_search
WebSearch ==
    /\ cstep = "web_search"
    /\ \E en_raised \in BOOLEAN, en \in EnhancedReturns,
          pr_raised \in BOOLEAN, pr \in ProductionReturns :
       \E ad_raised \in [1..generate_additional_queries(context) -> BOOLEAN],
          ad \in [1..generate_additional_queries(context) -> ProductionReturns] :
          /\ massive_data' = [massive_data EXCEPT !.web_search_data =
                 execute_massive_web_search(en_raised, en, pr_raised, pr, ad_raised, ad)]
          /\ raised_in' = raised_in
                 \cup (IF en_raised THEN {"enhanced_search"} ELSE {})
                 \cup (IF pr_raised THEN {"production_search"} ELSE {})
                 \cup (IF \E i \in DOMAIN ad_raised : ad_raised[i]
                       THEN {"additional_search"} ELSE {})
    /\ phase_log' = Append(phase_log, "web_search")
    /\ cstep' = "social_media"
    /\ UNCHANGED << context, future_to_url, extracted_content, saved, hanging, accepted,
                    fetched >>
    /\ UNCHANGED nonCollectorVars

\* FASE 2: _execute_massive_social_collection
SocialCollection ==
    /\ cstep = "social_media"
    /\ \E search_raised \in BOOLEAN, platforms \in PlatformsReturns,
          sentiment_raised \in BOOLEAN :
          /\ massive_data' = [massive_data EXCEPT !.social_media_data =
                 execute_massive_social_collection(search_raised, platforms, sentiment_raised)]
          /\ raised_in' = raised_in
                 \cup (IF search_raised THEN {"search_all_platforms"} ELSE {})
                 \cup (IF ~search_raised /\ CountAll(platforms) > 0 /\ sentiment_raised
                       THEN {"analyze_sentiment_trends"} ELSE {})
    /\ phase_log' = Append(phase_log, "social_media")
    /\ cstep' = "deep_navigation"
    /\ UNCHANGED << context, future_to_url, extracted_content, saved, hanging, accepted,
                    fetched >>
    /\ UNCHANGED nonCollectorVars

\* FASE 3: _execute_deep_navigation
DeepNavigation ==
    /\ cstep = "deep_navigation"
    /\ \E raised \in BOOLEAN, websailor \in WebsailorReturns :
          /\ massive_data' = [massive_data EXCEPT !.deep_navigation_data =
                 execute_deep_navigation(raised, websailor)]
          /\ raised_in' = raised_in
                 \cup (IF raised THEN {"navigate_and_research_deep"} ELSE {})
    /\ phase_log' = Append(phase_log, "deep_navigation")
    /\ cstep' = "content_extraction"
    /\ UNCHANGED << context, future_to_url, extracted_content, saved, hanging, accepted,
                    fetched >>
    /\ UNCHANGED nonCollectorVars

\* FASE 4 begins: the urls are collected and submitted to the executor
SubmitExtractions ==
    /\ cstep = "content_extraction"
    /\ future_to_url' \in SubmittedUrls(collect_urls(massive_data))
    /\ hanging' \in SUBSET future_to_url'
    /\ accepted' = {}
    /\ fetched' = NoFetch
    /\ extracted_content' = << >>
    /\ cstep' = "as_completed"
    /\ UNCHANGED << context, massive_data, phase_log, raised_in, saved >>
    /\ UNCHANGED nonCollectorVars

\* one future completes, in any order; as_completed yields no future that is
\* still running, so future.result(timeout=30) returns at once
FutureCompleted ==
    /\ cstep = "as_completed"
    /\ \E url \in future_to_url \ hanging, raised \in BOOLEAN, length \in ContentLengths :
          LET content_data == extract_single_url_content(url, raised, length) IN
          /\ future_to_url' = future_to_url \ {url}
          /\ extracted_content' = after_future(extracted_content, content_data)
          /\ accepted' = accepted \cup (IF content_data # << >> THEN {url} ELSE {})
          /\ fetched' = [url |-> url, raised |-> raised,
                         length |-> IF raised THEN 0 ELSE length]
          /\ raised_in' = raised_in \cup (IF raised THEN {"extract_content"} ELSE {})
    /\ UNCHANGED << cstep, context, massive_data, phase_log, saved, hanging >>
    /\ UNCHANGED nonCollectorVars

\* FASE 4 ends: as_completed has yielded every future and the executor's threads
\* have ended; the list is stored in the record
ExtractionDone ==
    /\ cstep = "as_completed"
    /\ future_to_url = {}
    /\ massive_data' = [massive_data EXCEPT !.extracted_content = extracted_content]
    /\ extracted_content' = << >>
    /\ fetched' = NoFetch
    /\ phase_log' = Append(phase_log, "content_extraction")
    /\ cstep' = "statistics"
    /\ UNCHANGED << context, future_to_url, raised_in, saved, hanging, accepted >>
    /\ UNCHANGED nonCollectorVars

\* _calculate_final_statistics
CalculateFinalStatistics ==
    /\ cstep = "statistics"
    /\ massive_data' = calculate_final_statistics(massive_data)
    /\ cstep' = "save"
    /\ UNCHANGED << context, future_to_url, extracted_content, phase_log, raised_in, saved,
                    hanging, accepted, fetched >>
    /\ UNCHANGED nonCollectorVars

\* _save_massive_json, then the return of the record
SaveMassiveJson ==
    /\ cstep = "save"
    /\ \E fault \in SaveFaults :
          /\ saved' = save_massive_json(saved, massive_data, fault)
          /\ raised_in' = raised_in \cup (IF fault # "none" THEN {"salvar_etapa"} ELSE {})
    /\ cstep' = "returned"
    /\ UNCHANGED << context, massive_data, future_to_url, extracted_content,
                    phase_log, hanging, accepted, fetched >>
    /\ UNCHANGED nonCollectorVars

CollectorNext ==
    \/ WebSearch
    \/ SocialCollection
    \/ DeepNavigation
    \/ SubmitExtractions
    \/ FutureCompleted
    \/ ExtractionDone
    \/ CalculateFinalStatistics
    \/ SaveMassiveJson

CollectorSpec == CollectorInit /\ [][CollectorNext]_vars

(***************************************************************************)
(* The executor of _execute_massive_content_extraction, by numbers of      *)
(* tasks: how many urls are submitted, how many tasks run at a time, how   *)
(* many entries are returned.                                              *)
(***************************************************************************)
\* ThreadPoolExecutor(max_workers=10)
MaxWorkers == 10

\* the sizes of all_urls
CandidateCounts == {0, 1, 10, 11, 100, 101, 130}

\* whether a worker thread is free to take a queued task
worker_free(r) == r < MaxWorkers

\* _execute_massive_content_extraction is called with all_urls collected
PoolInit ==
    /\ ReportInit
    /\ \A m \in ModuleSet : files[m] = NoFile
    /\ ~modules_dir
    /\ png_files = 0
    /\ StatsIdle
    /\ CollectorIdle
    /\ CaptureIdle
    /\ SynthIdle
    /\ pool_step = "submit"
    /\ candidates \in CandidateCounts
    /\ submitted = 0
    /\ queued = 0
    /\ running = 0
    /\ appended = 0

\* the dict comprehension: one task per url of list(all_urls)[:100]
SubmitTasks ==
    /\ pool_step = "submit"
    /\ submitted' = submit_count(candidates)
    /\ queued' = submit_count(candidates)
    /\ pool_step' = "as_completed"
    /\ UNCHANGED << candidates, running, appended >>
    /\ UNCHANGED nonPoolVars

\* a worker thread takes a queued task
WorkerTakesTask ==
    /\ pool_step = "as_completed"
    /\ queued > 0
    /\ worker_free(running)
    /\ queued' = queued - 1
    /\ running' = running + 1
    /\ UNCHANGED << pool_step, candidates, submitted, appended >>
    /\ UNCHANGED nonPoolVars

\* a task ends and the loop handles its future: an entry is appended or not
TaskCompleted ==
    /\ pool_step = "as_completed"
    /\ running > 0
    /\ running' = running - 1
    /\ \E kept \in BOOLEAN : appended' = IF kept THEN appended + 1 ELSE appended
    /\ UNCHANGED << pool_step, candidates, submitted, queued >>
    /\ UNCHANGED nonPoolVars

\* every future was handled: the list is returned
PoolReturns ==
    /\ pool_step = "as_completed"
    /\ queued = 0
    /\ running = 0
    /\ pool_step' = "returned"
    /\ UNCHANGED << candidates, submitted, queued, running, appended >>
    /\ UNCHANGED nonPoolVars

PoolNext ==
    \/ SubmitTasks
    \/ WorkerTakesTask
    \/ TaskCompleted
    \/ PoolReturns

PoolSpec == PoolInit /\ [][PoolNext]_vars

(***************************************************************************)
(* VisualContentCapture._calculate_engagement_score.                       *)
(*                                                                         *)
(* Python's arithmetic on the metrics: an integer times an integer is an   *)
(* integer, a string times an integer is a string, two integers or two     *)
(* strings add up, an integer and a string do not (TypeError).  A score is *)
(* a fraction num/den, or a string.                                        *)
(***************************************************************************)
TypeError == [kind |-> "error", n |-> 0]

Max(a, b) == IF a > b THEN a ELSE b

\* post.get(key, 0)
get(v) == IF v.kind = "absent" THEN IntValue(0) ELSE v

\* v * k
times(v, k) ==
    CASE v.kind = "int" -> IntValue(v.n * k)
      [] v.kind = "str" -> StrValue(0)
      [] OTHER -> TypeError

\* x + y
plus(x, y) ==
    CASE x.kind = "int" /\ y.kind = "int" -> IntValue(x.n + y.n)
      [] x.kind = "str" /\ y.kind = "str" -> StrValue(0)
      [] OTHER -> TypeError

\* return 0, at the end of the function
ZeroScore == [kind |-> "num", num |-> 0, den |-> 1]

\* the value a branch returns, or the 0 returned after the except clause
returned_score(v) ==
    CASE v.kind = "int" -> [kind |-> "num", num |-> v.n, den |-> 1]
      [] v.kind = "str" -> [kind |-> "str", num |-> 0, den |-> 1]
      [] OTHER -> ZeroScore

\* the branch of 'youtube': int(str(view_count).replace(',', '')) reads an integer
\* and a string that spells one; a string divided by an integer is a TypeError
youtube_score(post) ==
    LET views == get(post.view_count).n
        engagement == plus(times(get(post.like_count), 2), times(get(post.comment_count), 3))
    IN  IF engagement.kind = "int"
        THEN [kind |-> "num", num |-> engagement.n * 1000, den |-> Max(views, 1)]
        ELSE ZeroScore

\* the branch of 'twitter'
twitter_score(post) ==
    returned_score(plus(plus(get(post.like_count), times(get(post.retweet_count), 3)),
                        times(get(post.reply_count), 2)))

\* the branch of 'instagram'
instagram_score_CommentsTimes3(post) ==
    returned_score(plus(get(post.like_count), times(get(post.comment_count), 3)))

instagram_score(post) ==
    returned_score(plus(get(post.like_count), times(get(post.comment_count), 5)))

\* the branch of 'linkedin'
linkedin_score(post) ==
    returned_score(plus(plus(get(post.likes), times(get(post.comments), 3)),
                        times(get(post.shares), 5)))

\* _calculate_engagement_score
calculate_engagement_score(post, platform) ==
    CASE platform = "youtube" -> youtube_score(post)
      [] platform = "twitter" -> twitter_score(post)
      [] platform = "instagram" -> instagram_score(post)
      [] platform = "linkedin" -> linkedin_score(post)
      [] OTHER -> ZeroScore

\* the values of a metric
MetricValues == { Absent, IntValue(0), IntValue(2), IntValue(7), StrValue(3) }

\* the posts scored: three values spread over the metrics
ScorePosts ==
    { [NoPost EXCEPT !.url = "p", !.like_count = a, !.likes = a,
                     !.comment_count = b, !.comments = b, !.retweet_count = b,
                     !.view_count = c, !.reply_count = c, !.shares = c] :
        a \in MetricValues, b \in MetricValues, c \in MetricValues }

\* the platforms a post is scored for; the last has no branch
ScorePlatforms == { "youtube", "twitter", "instagram", "linkedin", "tiktok" }

\* _calculate_engagement_score is called
ScoreInit ==
    /\ ReportInit
    /\ \A m \in ModuleSet : files[m] = NoFile
    /\ ~modules_dir
    /\ png_files = 0
    /\ StatsIdle
    /\ CollectorIdle
    /\ PoolIdle
    /\ ShotIdle
    /\ SynthIdle
    /\ score_args \in [platform : ScorePlatforms, post : ScorePosts]
    /\ score = NoScore
    /\ rank_step = "idle"
    /\ rank_input = << >>
    /\ viral_posts = << >>

\* the call
CalculateEngagementScore ==
    /\ score_args.platform # ""
    /\ score = NoScore
    /\ score' = calculate_engagement_score(score_args.post, score_args.platform)
    /\ UNCHANGED << score_args, rankVars, shotVars >>
    /\ UNCHANGED nonCaptureVars

ScoreNext == CalculateEngagementScore

ScoreSpec == ScoreInit /\ [][ScoreNext]_vars

(***************************************************************************)
(* VisualContentCapture._identify_viral_posts.                             *)
(*                                                                         *)
(* social_media_data is followed as the list of posts of each platform     *)
(* (empty when the platform or its 'results' is missing); of post_data the *)
(* fields url, platform and engagement_score are kept.                     *)
(***************************************************************************)
\* the platforms, in the order of the loop
PlatformOrder == << "youtube", "twitter", "instagram", "linkedin" >>

\* scored_posts[:3]
TopPerPlatform == 3

\* viral_posts[:10]
TopGlobal == 10

\* a > b, for scores that are numbers
ScoreGT(a, b) == a.num * b.den > b.num * a.den

\* s[:n]
Take(s, n) == SubSeq(s, 1, Min(n, Len(s)))

\* list.sort(key=..., reverse=True) is stable: an entry y placed before x stays
\* before it unless x has the greater key
stays_before_OnlyIfGreater(y, x) == ScoreGT(y.engagement_score, x.engagement_score)

stays_before(y, x) == ~ScoreGT(x.engagement_score, y.engagement_score)

\* x put into the sorted list s
insert_sorted(x, s) ==
    LET k == Cardinality({ i \in 1..Len(s) : stays_before(s[i], x) })
    IN  SubSeq(s, 1, k) \o << x >> \o SubSeq(s, k + 1, Len(s))

RECURSIVE sort_by_engagement(_)
\* s.sort(key=lambda x: x['engagement_score'], reverse=True)
sort_by_engagement(s) ==
    IF s = << >> THEN << >>
    ELSE insert_sorted(s[Len(s)], sort_by_engagement(SubSeq(s, 1, Len(s) - 1)))

\* the test engagement_score > 0 raises TypeError for a score that is a string
comparison_raises(posts, platform) ==
    \E i \in 1..Len(posts) : calculate_engagement_score(posts[i], platform).kind = "str"

RECURSIVE scored_posts(_, _)
\* the inner loop: post_data of the posts whose score is above 0
scored_posts(posts, platform) ==
    IF posts = << >> THEN << >>
    ELSE LET engagement_score == calculate_engagement_score(Head(posts), platform)
         IN  (IF engagement_score.num > 0
              THEN << [url |-> Head(posts).url, platform |-> platform,
                       engagement_score |-> engagement_score] >>
              ELSE << >>)
             \o scored_posts(Tail(posts), platform)

RECURSIVE identify_from(_, _, _)
\* the loop over the platforms from the i-th on, with viral_posts as gathered so
\* far; an exception ends the function with viral_posts as it is
identify_from(social_media_data, i, gathered) ==
    IF i > Len(PlatformOrder)
    THEN Take(sort_by_engagement(gathered), TopGlobal)
    ELSE LET posts == social_media_data[PlatformOrder[i]] IN
         IF posts = << >> THEN identify_from(social_media_data, i + 1, gathered)
         ELSE IF comparison_raises(posts, PlatformOrder[i]) THEN gathered
         ELSE identify_from(social_media_data, i + 1,
                 gathered \o Take(sort_by_engagement(scored_posts(posts, PlatformOrder[i])),
                                  TopPerPlatform))

\* _identify_viral_posts
identify_viral_posts(social_media_data) == identify_from(social_media_data, 1, << >>)

\* posts with the given url and metrics
YoutubePost(url, likes, views) ==
    [NoPost EXCEPT !.url = url, !.like_count = likes, !.view_count = views]

TwitterPost(url, likes) == [NoPost EXCEPT !.url = url, !.like_count = likes]

InstagramPost(url, likes, comments) ==
    [NoPost EXCEPT !.url = url, !.like_count = likes, !.comment_count = comments]

LinkedinPost(url, likes) == [NoPost EXCEPT !.url = url, !.likes = likes]

\* the lists of posts of each platform
YoutubeLists ==
    { << >>,
      << YoutubePost("y1", IntValue(1), IntValue(1000)),
         YoutubePost("y2", IntValue(1), StrValue(400)),
         YoutubePost("y3", IntValue(1), IntValue(1000)),
         YoutubePost("y4", IntValue(1), IntValue(1000)) >>,
      << YoutubePost("y1", IntValue(0), Absent), YoutubePost("y2", IntValue(1), Absent) >> }

TwitterLists ==
    { << >>,
      << TwitterPost("t1", IntValue(2)), TwitterPost("t2", IntValue(5)),
         TwitterPost("t3", IntValue(0)), TwitterPost("t4", IntValue(2)),
         TwitterPost("t5", IntValue(5)) >>,
      << TwitterPost("t1", IntValue(9)) >>,
      << TwitterPost("t1", IntValue(9)), TwitterPost("t2", StrValue(3)) >> }

InstagramLists ==
    { << >>,
      << InstagramPost("i1", IntValue(2), Absent), InstagramPost("i2", IntValue(2), Absent),
         InstagramPost("i3", IntValue(2), IntValue(1)) >>,
      << InstagramPost("i1", StrValue(3), StrValue(3)) >> }

LinkedinLists ==
    { << >>,
      << LinkedinPost("l1", IntValue(5)), LinkedinPost("l2", IntValue(2)),
         LinkedinPost("l3", IntValue(2)) >>,
      << LinkedinPost("l1", IntValue(9)) >> }

\* _identify_viral_posts is called
RankInit ==
    /\ ReportInit
    /\ \A m \in ModuleSet : files[m] = NoFile
    /\ ~modules_dir
    /\ png_files = 0
    /\ StatsIdle
    /\ CollectorIdle
    /\ PoolIdle
    /\ ShotIdle
    /\ SynthIdle
    /\ score_args = [platform |-> "", post |-> NoPost]
    /\ score = NoScore
    /\ rank_step = "call"
    /\ rank_input \in [youtube : YoutubeLists, twitter : TwitterLists,
                       instagram : InstagramLists, linkedin : LinkedinLists]
    /\ viral_posts = << >>

\* the call
IdentifyViralPosts ==
    /\ rank_step = "call"
    /\ viral_posts' = identify_viral_posts(rank_input)
    /\ rank_step' = "returned"
    /\ UNCHANGED << rank_input, scoreVars, shotVars >>
    /\ UNCHANGED nonCaptureVars

\* a second call with the same argument
IdentifyViralPostsAgain ==
    /\ rank_step = "returned"
    /\ viral_posts' = identify_viral_posts(rank_input)
    /\ rank_step' = "again"
    /\ UNCHANGED << rank_input, scoreVars, shotVars >>
    /\ UNCHANGED nonCaptureVars

RankNext ==
    \/ IdentifyViralPosts
    \/ IdentifyViralPostsAgain

RankSpec == RankInit /\ [][RankNext]_vars

(***************************************************************************)
(* VisualContentCapture.capture_viral_posts_screenshots.                   *)
(*                                                                         *)
(* A post is abstracted to its url, a url to what the loop inspects of it: *)
(* its type and the scheme it starts with.  The browser driver and the     *)
(* store are outside the repository's sources: creating the directory,     *)
(* opening the driver and quitting it either raise or return, and a        *)
(* capture returns a record with success True or False.                    *)
(***************************************************************************)
\* the values post_data.get('url') may have: None, '', a string without an
\* http scheme, an http(s) URL, and a number
ShotUrls ==
    { [kind |-> "none", scheme |-> ""], [kind |-> "str", scheme |-> ""],
      [kind |-> "str", scheme |-> "ftp"], [kind |-> "str", scheme |-> "https"],
      [kind |-> "int", scheme |-> ""] }

\* the lists _identify_viral_posts may return
ShotPostLists ==
    UNION { [1..n -> [url : ShotUrls]] : n \in 0..MaxShotPosts }

\* what _capture_social_media_post returns: its record has success True, or
\* success False and an error
CaptureOutcomes == { "success", "failure" }

\* a call of a collaborator returns or raises
CallOutcomes == { "ok", "raises" }

\* not url
url_falsy(u) == u.kind = "none" \/ (u.kind = "str" /\ u.scheme = "")

\* the test of line 233 on a post's url: "invalid" when it is falsy or has no
\* http scheme, "raises" when it is no string (it has no startswith), else "valid"
url_check(u) ==
    IF url_falsy(u) THEN "invalid"
    ELSE IF u.kind # "str" THEN "raises"
    ELSE IF u.scheme \in { "http", "https" } THEN "valid"
    ELSE "invalid"

\* mutant: the error is listed and the counter is left alone
count_failed_ErrorsOnly(cr, i, e) ==
    [cr EXCEPT !.errors = Append(@, [post |-> i, error |-> e])]

\* failed_captures += 1 and errors.append(...)
count_failed(cr, i, e) ==
    [cr EXCEPT !.failed_captures = @ + 1,
               !.errors = Append(@, [post |-> i, error |-> e])]

\* screenshots_captured += 1 and viral_posts.append(result)
count_captured(cr, i) ==
    [cr EXCEPT !.screenshots_captured = @ + 1,
               !.viral_posts = Append(@, [post |-> i])]

\* the body of the capture loop for post i, whose capture (if it comes to
\* one) ends as outcome
capture_post(cr, i, post, outcome) ==
    CASE url_check(post.url) = "invalid" -> count_failed(cr, i, "invalid_url")
      [] url_check(post.url) = "raises" -> count_failed(cr, i, "raised")
      [] outcome = "success" -> count_captured(cr, i)
      [] OTHER -> count_failed(cr, i, "capture_failed")

\* mutant: self.driver = None is inside the try, after quit()
driver_after_quit_UnlessRaised(outcome) ==
    IF outcome = "raises" THEN "driver" ELSE "None"

\* the finally clause: self.driver after quit() returned or raised
driver_after_quit(outcome) == "None"

\* capture_viral_posts_screenshots is called on an instance that holds no driver
ShotInit ==
    /\ ReportInit
    /\ \A m \in ModuleSet : files[m] = NoFile
    /\ ~modules_dir
    /\ png_files = 0
    /\ StatsIdle
    /\ CollectorIdle
    /\ PoolIdle
    /\ SynthIdle
    /\ score_args = [platform |-> "", post |-> NoPost]
    /\ score = NoScore
    /\ rank_step = "idle"
    /\ rank_input = << >>
    /\ viral_posts = << >>
    /\ shot_step = "call"
    /\ shot_posts \in ShotPostLists
    /\ shot_i = 0
    /\ capture_results = NewCaptureResults
    /\ driver = "None"
    /\ drivers_opened = 0
    /\ drivers_quit = << >>

\* lines 204-218: the record, then _create_session_directory, which re-raises
CreateSessionDirectory ==
    /\ shot_step = "call"
    /\ \E o \in CallOutcomes :
        IF o = "raises"
        THEN /\ capture_results' = [NewCaptureResults EXCEPT !.critical_error = TRUE]
             /\ shot_step' = "finally"
        ELSE /\ capture_results' = [NewCaptureResults EXCEPT !.session_directory = TRUE]
             /\ shot_step' = "setup"
    /\ UNCHANGED << shot_posts, shot_i, driver, drivers_opened, drivers_quit >>
    /\ UNCHANGED << scoreVars, rankVars >>
    /\ UNCHANGED nonCaptureVars

\* line 221: _setup_driver, which re-raises
SetupDriver ==
    /\ shot_step = "setup"
    /\ \E o \in CallOutcomes :
        IF o = "raises"
        THEN /\ capture_results' = [capture_results EXCEPT !.critical_error = TRUE]
             /\ shot_step' = "finally"
             /\ UNCHANGED << driver, drivers_opened >>
        ELSE /\ driver' = "driver"
             /\ drivers_opened' = drivers_opened + 1
             /\ shot_step' = "identify"
             /\ UNCHANGED capture_results
    /\ UNCHANGED << shot_posts, shot_i, drivers_quit >>
    /\ UNCHANGED << scoreVars, rankVars >>
    /\ UNCHANGED nonCaptureVars

\* lines 224-225: the posts are identified and counted
CountViralPosts ==
    /\ shot_step = "identify"
    /\ capture_results' = [capture_results EXCEPT !.total_posts_analyzed = Len(shot_posts)]
    /\ shot_i' = 1
    /\ shot_step' = "loop"
    /\ UNCHANGED << shot_posts, driver, drivers_opened, drivers_quit >>
    /\ UNCHANGED << scoreVars, rankVars >>
    /\ UNCHANGED nonCaptureVars

\* lines 228-262: one turn of the capture loop
CapturePost ==
    /\ shot_step = "loop"
    /\ shot_i <= Len(shot_posts)
    /\ \E o \in CaptureOutcomes :
        capture_results' = capture_post(capture_results, shot_i, shot_posts[shot_i], o)
    /\ shot_i' = shot_i + 1
    /\ UNCHANGED << shot_step, shot_posts, driver, drivers_opened, drivers_quit >>
    /\ UNCHANGED << scoreVars, rankVars >>
    /\ UNCHANGED nonCaptureVars

\* line 265: the loop is over
CaptureLoopDone ==
    /\ shot_step = "loop"
    /\ shot_i > Len(shot_posts)
    /\ capture_results' = [capture_results EXCEPT !.end_time = TRUE]
    /\ shot_step' = "finally"
    /\ UNCHANGED << shot_posts, shot_i, driver, drivers_opened, drivers_quit >>
    /\ UNCHANGED << scoreVars, rankVars >>
    /\ UNCHANGED nonCaptureVars

\* lines 274-284: the finally clause, and the return
QuitDriver ==
    /\ shot_step = "finally"
    /\ IF driver # "None"
       THEN \E o \in CallOutcomes :
               /\ drivers_quit' = Append(drivers_quit, o)
               /\ driver' = driver_after_quit(o)
       ELSE UNCHANGED << driver, drivers_quit >>
    /\ shot_step' = "returned"
    /\ UNCHANGED << shot_posts, shot_i, capture_results, drivers_opened >>
    /\ UNCHANGED << scoreVars, rankVars >>
    /\ UNCHANGED nonCaptureVars

ShotNext ==
    \/ CreateSessionDirectory
    \/ SetupDriver
    \/ CountViralPosts
    \/ CapturePost
    \/ CaptureLoopDone
    \/ QuitDriver

ShotSpec == ShotInit /\ [][ShotNext]_vars

(***************************************************************************)
(* AISynthesisEngine.analyze_and_synthesize.                               *)
(*                                                                         *)
(* The collection report is abstracted to whether it exists and to its     *)
(* number of words; a synthesis document to where it came from (kind) and  *)
(* to its total_fontes_analisadas.  The generation collaborator            *)
(* (enhanced_ai_manager) is outside the repository's sources: its call     *)
(* either raises or returns a response.                                    *)
(***************************************************************************)
\* the collection reports a session may hold: none, an empty one, one of 250 words
CollectionReports ==
    { NoCollectionReport, [exists |-> TRUE, words |-> 0], [exists |-> TRUE, words |-> 250] }

\* resumo_sintese.json as an earlier synthesis left it
PriorSynthesis == [kind |-> "prior", total_fontes_analisadas |-> 7]

\* the values of the argument analysis_time (the default is 300)
AnalysisTimes == { 0, 30, 60, 90, 300 }

\* open() and f.read() of the collection report
ReadOutcomes == { "ok", "raises" }

\* what generate_with_tools does: it raises, or it returns None, a text without
\* braces, a text whose braces hold no JSON, or a text that holds a JSON object
GenerateOutcomes == { "raises", "none", "no_braces", "invalid_json", "json" }

\* open(json_path, 'w') and json.dump: open() raises before the file is touched,
\* the dump raises after open() has truncated it
SynthesisWriteOutcomes == { "ok", "open_raises", "dump_raises" }

\* the path _save_synthesis_json returns
SynthesisPath == "analyses_data/s1/resumo_sintese.json"

\* the while loop of _execute_active_ai_study: one phase
phase_duration(t, total) == Min(PhaseSeconds, t - total)

\* the structure _extract_json_from_response returns from its handler
basic_structure == [kind |-> "basic", total_fontes_analisadas |-> 0]

\* _extract_json_from_response: None has no find(); without braces, or with
\* text between them that is not JSON, json.loads raises; every failure is
\* caught and answered with the basic structure
extract_json_from_response(response) ==
    IF response = "json"
    THEN [kind |-> "ai", total_fontes_analisadas |-> 3]
    ELSE basic_structure

\* _create_fallback_synthesis
create_fallback_synthesis(report) ==
    [kind |-> "fallback", total_fontes_analisadas |-> report.words \div WordsPerSource]

\* the try of _execute_active_ai_study after the study loop
generated_synthesis(outcome, report) ==
    IF outcome = "raises"
    THEN create_fallback_synthesis(report)
    ELSE extract_json_from_response(outcome)

\* _save_synthesis_json: the file afterwards
saved_file(stored, json, outcome) ==
    CASE outcome = "ok" -> json
      [] outcome = "open_raises" -> stored
      [] OTHER -> [kind |-> "partial", total_fontes_analisadas |-> 0]

\* _save_synthesis_json: what it returns, None from its handler
save_synthesis_json(outcome) == IF outcome = "ok" THEN SynthesisPath ELSE "None"

synthesis_except_NoError(sr, e) == [sr EXCEPT !.success = FALSE]

\* the handler of analyze_and_synthesize
synthesis_except(sr, e) == [sr EXCEPT !.error = e, !.success = FALSE]

\* analyze_and_synthesize is called in a session that may hold a collection
\* report and an earlier synthesis
SynthInit ==
    /\ ReportInit
    /\ \A m \in ModuleSet : files[m] = NoFile
    /\ ~modules_dir
    /\ png_files = 0
    /\ StatsIdle
    /\ CollectorIdle
    /\ PoolIdle
    /\ CaptureIdle
    /\ syn_step = "call"
    /\ collection_report \in CollectionReports
    /\ synthesis_file \in { NoSynthesis, PriorSynthesis }
    /\ analysis_time = 0
    /\ total_study_time = 0
    /\ synthesis_json = NoSynthesis
    /\ synthesis_results = NewSynthesisResults
    /\ generate_calls = 0

\* lines 47-73: the record is created and the collection report is loaded
LoadCollectionReport ==
    /\ syn_step = "call"
    /\ \E t \in AnalysisTimes, o \in ReadOutcomes :
        /\ analysis_time' = t
        /\ IF ~collection_report.exists
           THEN /\ synthesis_results' =
                       synthesis_except(NewSynthesisResults, "FileNotFoundError")
                /\ syn_step' = "returned"
           ELSE IF o = "raises"
           THEN /\ synthesis_results' = synthesis_except(NewSynthesisResults, "OSError")
                /\ syn_step' = "returned"
           ELSE /\ synthesis_results' = NewSynthesisResults
                /\ syn_step' = "study"
    /\ UNCHANGED << collection_report, synthesis_file, total_study_time, synthesis_json,
                    generate_calls >>
    /\ UNCHANGED nonSynthVars

\* lines 179-207: one turn of the study loop
StudyPhase ==
    /\ syn_step = "study"
    /\ total_study_time < analysis_time
    /\ LET d == phase_duration(analysis_time, total_study_time)
           n == Len(synthesis_results.study_phases) + 1
       IN /\ synthesis_results' =
                 [synthesis_results EXCEPT
                     !.study_phases = Append(@, [phase |-> n, planned_duration |-> d])]
          /\ total_study_time' = total_study_time + d
    /\ UNCHANGED << syn_step, collection_report, synthesis_file, analysis_time,
                    synthesis_json, generate_calls >>
    /\ UNCHANGED nonSynthVars

\* lines 209-229: the study loop is over; the synthesis is generated
GenerateSynthesis ==
    /\ syn_step = "study"
    /\ ~(total_study_time < analysis_time)
    /\ \E o \in GenerateOutcomes :
        synthesis_json' = generated_synthesis(o, collection_report)
    /\ generate_calls' = generate_calls + 1
    /\ syn_step' = "save"
    /\ UNCHANGED << collection_report, synthesis_file, analysis_time, total_study_time,
                    synthesis_results >>
    /\ UNCHANGED nonSynthVars

\* lines 83-98 and 369-385: the synthesis is saved and the record is returned
SaveSynthesisJson ==
    /\ syn_step = "save"
    /\ \E o \in SynthesisWriteOutcomes :
        /\ synthesis_file' = saved_file(synthesis_file, synthesis_json, o)
        /\ synthesis_results' =
              [synthesis_results EXCEPT !.synthesis_json = synthesis_json,
                                        !.synthesis_json_path = save_synthesis_json(o),
                                        !.success = TRUE]
    /\ syn_step' = "returned"
    /\ UNCHANGED << collection_report, analysis_time, total_study_time, synthesis_json,
                    generate_calls >>
    /\ UNCHANGED nonSynthVars

SynthNext ==
    \/ LoadCollectionReport
    \/ StudyPhase
    \/ GenerateSynthesis
    \/ SaveSynthesisJson

SynthSpec == SynthInit /\ [][SynthNext]_vars

(***************************************************************************)
(* compile_final_markdown_report in a session that holds what the earlier  *)
(* stages left: module artifacts, the collection report, the synthesis.    *)
(***************************************************************************)
\* the session before the compilation; no generation runs
CompileInit ==
    /\ ReportInit
    /\ StatsIdle
    /\ CollectorIdle
    /\ PoolIdle
    /\ CaptureIdle
    /\ syn_step = "idle"
    /\ collection_report \in CollectionReports
    /\ synthesis_file \in { NoSynthesis, PriorSynthesis }
    /\ analysis_time = 0
    /\ total_study_time = 0
    /\ synthesis_json = NoSynthesis
    /\ synthesis_results = NewSynthesisResults
    /\ generate_calls = 0

CompileNext ==
    \/ CompileLoad
    \/ CompileSaveFinal
    \/ CompileSaveComplete
    \/ Recompile

CompileSpec == CompileInit /\ [][CompileNext]_vars

(***************************************************************************)
(* Properties.                                                             *)
(***************************************************************************)
\* the module the main loop is at
CurrentModule == modules_config[module_i]

\* the module the main loop has just finished
LastModule == modules_config[module_i - 1]

\* SaveModule has just written the content of LastModule and counted it
JustSaved == pc = "loop" /\ module_i > 1 /\ files[LastModule] = content

\* non-empty and longer than 500 characters after trimming
Accepted(c) == c.kind = "generated" /\ c.raw > 0 /\ c.stripped > 500

\* the three attempts of the module were made and none was accepted
AttemptsExhausted == calls = 3 /\ ~Accepted(content)

\* how often m is in the produced list
TimesGenerated(m) ==
    Cardinality({i \in 1..Len(results.modules_generated) : results.modules_generated[i] = m})

\* C1: when generate_all_modules has returned, for every behaviour of the
\* generation collaborator (the session store doing what it is asked):
\* successful_modules and the length of modules_generated equal the number of
\* module specs, every module name is in modules_generated exactly once, and
\* every module has a non-empty artifact of its own that this run wrote.
C1_Cardinality ==
    (pc = "done" /\ ioFaults = 0) =>
        /\ results.total_modules = Len(modules_config)
        /\ results.successful_modules = Len(modules_config)
        /\ Len(results.modules_generated) = Len(modules_config)
        /\ \A m \in ModuleSet :
            /\ TimesGenerated(m) = 1
            /\ FileOk(files, m)
            /\ files[m].module = m
            /\ files[m].kind \in {"generated", "fallback"}

\* the collaborator failed every attempt of every module and all are delivered
C1_Witness ==
    /\ pc = "done"
    /\ ioFaults = 0
    /\ results.successful_modules = Len(modules_config)
    /\ \A m \in ModuleSet : files[m] = generate_fallback_module_content(m, session_id)

\* C2: compile_final_markdown_report, when no store operation goes wrong,
\* returns success whatever module artifacts are present, and the report has
\* the placeholder exactly for the modules that could not be loaded.
C2_CompileNeverFailsOnMissing ==
    (cpc = "returned" /\ ioFaults = 0) =>
        /\ compile_result.success
        /\ Len(relatorio_final.sections) = Len(modules_order)
        /\ \A i \in 1..Len(modules_order) :
            /\ relatorio_final.sections[i].module = modules_order[i]
            /\ relatorio_final.sections[i].placeholder
                  <=> ~(FileOk(files, modules_order[i]) /\ Loadable(files[modules_order[i]]))

C4_SweepAfterCancel ==
    pc = "cancelled" => \A m \in ModuleSet : FileOk(files, m)

\* C5: once the modules directory was made, generate_all_modules does not
\* raise (the call ends raised only when mkdir failed, before the first module).
C5_NeverRaises ==
    pc = "raised" => module_i = 0

C7_CountedOnlyWithArtifact ==
    pc = "done" =>
        \A m \in ModuleSet : InSeq(m, results.modules_generated) => FileOk(files, m)

\* C8: the collaborator is called at least once and at most 3 times per
\* module; an attempt that returns accepted content ends the loop, no call
\* follows it, and that content is what the save step writes as the artifact.
C8_AttemptLoop ==
    /\ [](pc \in {"generate", "backoff"} => calls < 3 /\ ~Accepted(content))
    /\ [](pc = "save" => calls >= 1 /\ calls <= 3)
    /\ [][(pc = "generate" /\ calls' = calls + 1 /\ Accepted(content')) => pc' = "save"]_vars
    /\ [][(pc = "save" /\ Accepted(content) /\ ioFaults' = ioFaults)
             => (files'[CurrentModule] = content /\ pc' = "loop")]_vars

\* the second attempt was accepted and its content is the artifact
C8_Witness ==
    /\ JustSaved
    /\ Accepted(content)
    /\ content.attempt = 2
    /\ calls = 2

\* a step in which an attempt fails: the call returns rejected content or raises
FailedAttempt == pc = "generate" /\ calls' = calls + 1 /\ ~Accepted(content')

\* a step in which the call raises
RaisedAttempt ==
    /\ pc = "generate"
    /\ calls' = calls + 1
    /\ content' \notin GenReturns(CurrentModule, attempt + 1)

C10_WrittenContentNotEmpty ==
    (pc \in {"loop", "emergency"} /\ calls > 0) =>
        /\ content.kind # "none"
        /\ content.raw > 0
        /\ content.stripped > 0

\* the last attempt returned nothing usable and the handler is about to
\* replace an artifact that was not created
C10_Witness ==
    /\ pc = "emergency"
    /\ calls = 3
    /\ content = generate_fallback_module_content(CurrentModule, session_id)
    /\ err = "not_created"

\* C11: when the generation call of a module raised on all 3 attempts and the
\* write of the module is performed, the artifact written is not empty and
\* its text names the module and the session.
C11_FallbackNamesModuleAndSession ==
    [][(pc = "save" /\ raises = 3 /\ ioFaults' = ioFaults)
          => /\ files'[CurrentModule].raw > 0
             /\ files'[CurrentModule].stripped > 0
             /\ files'[CurrentModule].module = CurrentModule
             /\ files'[CurrentModule].session = session_id
             /\ pc' = "loop"]_vars

\* all three calls of the module raised and its artifact is the fallback
\* document of this session
C11_Witness ==
    /\ pc = "loop"
    /\ module_i > 1
    /\ raises = 3
    /\ files[LastModule].kind = "fallback"
    /\ files[LastModule].module = LastModule
    /\ files[LastModule].session = session_id
\* the artifact of m is fallback or emergency content
Degraded(m) == files[m].kind \in {"fallback", "emergency"}

\* the results of a run in which every module was generated normally
AllNormalResults ==
    [successful_modules |-> N, failed_modules |-> 0, modules_generated |-> modules_config,
     modules_failed |-> << >>, total_modules |-> N]

\* C12: a run (the session store doing what it is asked) in which a module
\* was delivered through fallback or emergency content records it: the
\* results returned by generate_all_modules differ from those of a run that
\* generated every module normally, and so do the statistics of the
\* compilation that follows.
C12_DegradedRecorded ==
    (pc = "done" /\ ioFaults = 0 /\ \E m \in ModuleSet : Degraded(m)) =>
        /\ results # AllNormalResults
        /\ (cpc = "returned" /\ compile_result.success)
              => compile_result.statistics # report_counts(ModuleSet, png_files)
\* some module of the run was delivered by the fallback document
SomeFallback == \E m \in ModuleSet : files[m].kind = "fallback"

\* the compiled report lists every module as present at a rate of 100%
AllPresent ==
    /\ compile_result.success
    /\ compile_result.modules_compiled = Len(modules_order)
    /\ compile_result.statistics.modules_missing = 0
    /\ compile_result.statistics.success_rate.num
          = 100 * compile_result.statistics.success_rate.den
    /\ \A i \in 1..Len(relatorio_final.sections) : ~relatorio_final.sections[i].placeholder

\* C13: when a module was delivered by fallback, a compilation after
\* generate_all_modules (the session store doing what it is asked) lists
\* every module as present and reports a success rate of 100%.
C13_FallbackCountsAsDelivered ==
    (pc = "done" /\ cpc = "returned" /\ ioFaults = 0 /\ SomeFallback) => AllPresent
\* what a write of this run may put into the file of m
ThisRunWrites(m) ==
    { ContentToSave(content, m),
      generate_emergency_module_content(m, err),
      generate_emergency_module_content(m, "guarantee"),
      generate_emergency_module_content(m, "guarantee_final") }

\* C14: the session has one artifact slot per module name; a write that is
\* performed leaves in the slot exactly the content this run wrote, whatever
\* the slot held before; and when a run over a session with artifacts of an
\* earlier run has returned (the session store doing what it is asked), no
\* slot holds content of the earlier run.
C14_OverwriteNotAppend ==
    /\ [](DOMAIN files = ModuleSet)
    /\ [][\A m \in ModuleSet :
            (files'[m] # files[m] /\ ioFaults' = ioFaults) => files'[m] \in ThisRunWrites(m)]_vars
    /\ []((pc = "done" /\ ioFaults = 0) =>
            \A m \in ModuleSet :
                /\ files[m].kind \in {"generated", "fallback"}
                /\ files[m].raw \in {FallbackFixedLen} \cup {l[1] : l \in GenLengths})

\* a run has returned that replaced an artifact of an earlier run
C14_Witness ==
    /\ pc = "done"
    /\ ioFaults = 0
    /\ replaced
    /\ \A m \in ModuleSet : files[m].kind \in {"generated", "fallback"}
\* the sections of a report are those of modules_order, in its order, the
\* placeholder standing for the modules that were not loaded
InDeclarationOrder(report) ==
    /\ Len(report.sections) = Len(modules_order)
    /\ \A i \in 1..Len(report.sections) :
        /\ report.sections[i].module = modules_order[i]
        /\ report.sections[i].placeholder <=> modules_order[i] \notin available_modules
    /\ \A i, j \in 1..Len(report.sections) :
        i # j => report.sections[i].module # report.sections[j].module

\* C15: in the final and in the complete report a compilation wrote, the
\* module sections are in the declaration order of modules_order and every
\* module has exactly one section, its content or the placeholder.
C15_SectionsInDeclarationOrder ==
    (cpc = "returned" /\ compile_result.success) =>
        /\ relatorio_final.writer = "compiler"
        /\ consolidated.writer = "compiler"
        /\ InDeclarationOrder(relatorio_final)
        /\ InDeclarationOrder(consolidated)

\* a compilation that loaded the second module and not the first
C15_Witness ==
    /\ cpc = "returned"
    /\ compile_result.success
    /\ relatorio_final.sections[1].placeholder
    /\ ~relatorio_final.sections[2].placeholder
    /\ consolidated.sections = relatorio_final.sections
C16_ReportStatistics ==
    statistics # NoStatistics =>
        /\ statistics.total_modules = Len(modules_order)
        /\ statistics.modules_compiled = Cardinality(stats_args.modules)
        /\ statistics.modules_compiled + statistics.modules_missing
              = statistics.total_modules
        /\ statistics.success_rate.num * statistics.total_modules
              = statistics.modules_compiled * 100 * statistics.success_rate.den
        /\ statistics.success_rate.den > 0
        /\ statistics.estimated_pages >= 25
        /\ statistics.estimated_pages >= statistics.total_characters \div 2000
        /\ statistics.estimated_pages \in {25, statistics.total_characters \div 2000}

\* statistics of reports shorter than 25 pages with a module missing
C16_Witness ==
    /\ statistics # NoStatistics
    /\ statistics.modules_missing > 0
    /\ statistics.modules_compiled > 0
    /\ statistics.total_characters \div 2000 < 25
    /\ statistics.total_characters > 0
    /\ statistics.estimated_pages = 25

\* the phases of execute_massive_collection, in the order of the code
CollectionPhases == << "web_search", "social_media", "deep_navigation", "content_extraction" >>

Resolved(phase) == \E i \in 1..Len(phase_log) : phase_log[i] = phase

SocialRaised == raised_in \cap {"search_all_platforms", "analyze_sentiment_trends"} # {}

\* the as_completed loop waits, and every fetch it waits for never returns
AwaitsHangingFetch ==
    cstep = "as_completed" /\ future_to_url # {} /\ future_to_url \subseteq hanging

\* every failed call left its marker, and only a failed call did
MarkersMatchFailures ==
    /\ SocialRaised <=> massive_data.social_media_data.error # ""
    /\ "navigate_and_research_deep" \in raised_in
          <=> massive_data.deep_navigation_data.error # ""
    /\ "enhanced_search" \in raised_in
          <=> massive_data.web_search_data.enhanced_search_results.error # ""
    /\ "production_search" \in raised_in
          <=> massive_data.web_search_data.production_search_results.error # ""
    /\ "additional_search" \in raised_in
          <=> \E i \in DOMAIN massive_data.web_search_data.additional_queries_results :
                 massive_data.web_search_data.additional_queries_results[i].error # ""

\* a step leaves the field of every resolved phase as that phase wrote it
ResolvedFieldsKept ==
    /\ Resolved("web_search")
          => massive_data'.web_search_data = massive_data.web_search_data
    /\ Resolved("social_media")
          => massive_data'.social_media_data = massive_data.social_media_data
    /\ Resolved("deep_navigation")
          => massive_data'.deep_navigation_data = massive_data.deep_navigation_data
    /\ Resolved("content_extraction")
          => massive_data'.extracted_content = massive_data.extracted_content

\* C18: when a collaborator of the social phase raises, and likewise for a
\* collaborator of any other phase, execute_massive_collection goes on to its
\* return: the failed phase's field carries an error marker (and no field carries
\* one without a failure), the fields the other phases wrote are kept as written,
\* every phase has resolved at the return, and no state short of the return is
\* without a next step, other than the wait for a fetch that never returns.
C18_PartialPhaseResilience ==
    /\ [](MarkersMatchFailures)
    /\ [](cstep \notin {"idle", "returned"} /\ ~AwaitsHangingFetch => ENABLED CollectorNext)
    /\ [](cstep = "returned" => phase_log = CollectionPhases)
    /\ [][ResolvedFieldsKept]_vars

\* the social search raised, and the record returned holds the web and the deep data
C18_Witness ==
    /\ cstep = "returned"
    /\ "search_all_platforms" \in raised_in
    /\ massive_data.social_media_data.error = ErrorText
    /\ massive_data.web_search_data.enhanced_search_results.exa_results # << >>
    /\ massive_data.deep_navigation_data.websailor_navigation.fontes_detalhadas # << >>
    /\ massive_data.statistics.sources_by_type.web_search > 0
    /\ massive_data.statistics.sources_by_type.deep_navigation > 0
    /\ massive_data.statistics.sources_by_type.social_media = 0

IsPrefix(s, t) == Len(s) <= Len(t) /\ s = SubSeq(t, 1, Len(s))

\* the phase order the specification names
SixPhases == << "web_search", "social_media", "deep_navigation", "ranking",
               "screenshot_capture", "content_extraction" >>

\* how many phases must have resolved for the call to be where it is
PhasesBefore ==
    CASE cstep = "idle" -> 0
      [] cstep = "web_search" -> 0
      [] cstep = "social_media" -> 1
      [] cstep = "deep_navigation" -> 2
      [] cstep \in {"content_extraction", "as_completed"} -> 3
      [] OTHER -> 4

\* the urls held anywhere in the fields of the three collecting phases
UrlsHeld(md) ==
    { u \in Urls :
        \/ \E i \in 1..Len(md.web_search_data.enhanced_search_results.exa_results) :
              md.web_search_data.enhanced_search_results.exa_results[i] = u
        \/ \E i \in 1..Len(md.web_search_data.enhanced_search_results.google_results) :
              md.web_search_data.enhanced_search_results.google_results[i] = u
        \/ \E i \in 1..Len(md.web_search_data.enhanced_search_results.other_results) :
              md.web_search_data.enhanced_search_results.other_results[i] = u
        \/ \E i \in 1..Len(md.web_search_data.production_search_results.results) :
              md.web_search_data.production_search_results.results[i] = u
        \/ \E q \in DOMAIN md.web_search_data.additional_queries_results :
              \E i \in 1..Len(md.web_search_data.additional_queries_results[q].results) :
                 md.web_search_data.additional_queries_results[q].results[i] = u
        \/ \E p \in 1..Len(md.social_media_data.all_platforms_data) :
              \E i \in 1..Len(md.social_media_data.all_platforms_data[p].results) :
                 md.social_media_data.all_platforms_data[p].results[i] = u
        \/ \E i \in 1..Len(md.deep_navigation_data.websailor_navigation.fontes_detalhadas) :
              md.deep_navigation_data.websailor_navigation.fontes_detalhadas[i] = u }

StatisticsComputed == cstep \in {"save", "returned"}

\* C20: from the moment the statistics are computed to the return, total_sources
\* is the sum of the four counts of sources_by_type, and the counts of the social,
\* deep and extraction phases are the numbers of entries those phases left in the
\* record; until then the statistics are the zeros the record was created with, and
\* the step that computes them is taken only when all four phases have resolved.
C20_TotalSources ==
    /\ [](StatisticsComputed =>
            LET stats == massive_data.statistics IN
            /\ stats.total_sources =
                  stats.sources_by_type.web_search + stats.sources_by_type.social_media
                  + stats.sources_by_type.deep_navigation
                  + stats.sources_by_type.extracted_content
            /\ stats.sources_by_type.extracted_content = Len(massive_data.extracted_content)
            /\ stats.sources_by_type.social_media =
                  CountAll(massive_data.social_media_data.all_platforms_data)
            /\ stats.sources_by_type.deep_navigation =
                  Len(massive_data.deep_navigation_data.websailor_navigation.fontes_detalhadas))
    /\ [](~StatisticsComputed => massive_data.statistics = NewMassiveData.statistics)
    /\ [][massive_data'.statistics # massive_data.statistics
            => phase_log = CollectionPhases /\ phase_log' = phase_log]_vars

\* the call returned with a failed search and sources of every type
C20_Witness ==
    /\ cstep = "returned"
    /\ "production_search" \in raised_in
    /\ massive_data.statistics.sources_by_type.web_search = 3
    /\ massive_data.statistics.sources_by_type.social_media = 2
    /\ massive_data.statistics.sources_by_type.deep_navigation = 2
    /\ massive_data.statistics.sources_by_type.extracted_content = 2
    /\ massive_data.statistics.total_sources = 9

\* C21: a fetch that never finishes is abandoned after its timeout, so a call whose
\* as_completed loop waits only for such fetches takes a further step, and the phase
\* ends with the items of the other tasks.
C21_HangingFetchAbandoned == AwaitsHangingFetch => ENABLED CollectorNext

\* the urls of a list of extracted entries
EntryUrls(items) == { items[i].url : i \in 1..Len(items) }

\* no url has two entries
OneEntryPerUrl(items) ==
    \A i, j \in 1..Len(items) : items[i].url = items[j].url => i = j

\* C22: a fetch that raises or yields nothing discards only its own item: while
\* the futures complete, in whatever order, and in the record once the phase has
\* resolved, the extraction output holds exactly the urls whose fetch returned an
\* entry, each of them once.
C22_FailureDiscardsOwnItem ==
    /\ cstep = "as_completed"
          => EntryUrls(extracted_content) = accepted /\ OneEntryPerUrl(extracted_content)
    /\ Resolved("content_extraction")
          => /\ EntryUrls(massive_data.extracted_content) = accepted
             /\ OneEntryPerUrl(massive_data.extracted_content)

\* of two submitted fetches one raised and the other's entry is in the record
C22_Witness ==
    /\ cstep = "returned"
    /\ "extract_content" \in raised_in
    /\ collect_urls(massive_data) = {"a", "b"}
    /\ accepted = {"b"}
    /\ massive_data.extracted_content = << [url |-> "b", length |-> 501] >>

\* C24: extracted content is discarded exactly when it is shorter than 500
\* characters: no entry of the output is shorter than 500, and when a fetch returned
\* 500 characters or more its entry is in the output.
C24_KeptFrom500 ==
    cstep = "as_completed" =>
       /\ \A i \in 1..Len(extracted_content) : extracted_content[i].length >= 500
       /\ fetched.url # "" /\ ~fetched.raised /\ fetched.length >= 500
             => \E i \in 1..Len(extracted_content) :
                   extracted_content[i] = [url |-> fetched.url, length |-> fetched.length]

\* the normalized form of a url: without the trailing slash
Normalized(u) == IF u = "a/" THEN "a" ELSE u

\* C25: when the candidate lists of two adapters hold the same url, in the sense
\* of the same normalized form, the candidate set holds it once, so no two fetches
\* are submitted for urls of one normalized form.
C25_OneFetchPerNormalizedUrl ==
    cstep = "as_completed" =>
       \A u, v \in future_to_url \cup EntryUrls(extracted_content) :
          Normalized(u) = Normalized(v) => u = v

\* the same url string held by two adapters is submitted once: every submitted url
\* is fetched at most once
C25_SameStringOnce ==
    cstep = "as_completed" =>
       /\ future_to_url \cap EntryUrls(extracted_content) = {}
       /\ OneEntryPerUrl(extracted_content)

\* C23: however many candidate urls the phases produced, content extraction
\* submits one task per candidate up to 100 tasks, at no time more than 10 tasks
\* run, and the list returned holds at most 100 entries, at most one per task.
C23_ExecutorCaps ==
    /\ submitted <= 100
    /\ running <= 10
    /\ appended <= 100
    /\ pool_step # "submit" /\ candidates <= 100 => submitted = candidates
    /\ pool_step # "submit" /\ candidates > 100 => submitted = 100
    /\ appended + running + queued <= submitted

\* more than 100 candidates: 100 tasks were submitted, 10 of them run and others wait
C23_Witness ==
    /\ candidates = 130
    /\ submitted = 100
    /\ running = 10
    /\ queued > 0
    /\ appended > 0

\* a metric counted as the claim counts it: an absent metric is 0
Counted(v) == IF v.kind = "int" THEN v.n ELSE 0

Readable(v) == v.kind \in {"int", "absent"}

\* C29: for a post whose metrics are integers or absent, the score is, per
\* platform: twitter likes + retweets*3 + replies*2; instagram likes + comments*5;
\* linkedin likes + comments*3 + shares*5; youtube (likes*2 + comments*3) /
\* max(views, 1) * 1000; an absent metric counts as 0.
C29_ScoreFormulas ==
    LET post == score_args.post IN
    score # NoScore =>
       /\ score_args.platform = "twitter"
          /\ Readable(post.like_count) /\ Readable(post.retweet_count)
          /\ Readable(post.reply_count)
          => score = [kind |-> "num", den |-> 1,
                      num |-> Counted(post.like_count) + Counted(post.retweet_count) * 3
                              + Counted(post.reply_count) * 2]
       /\ score_args.platform = "instagram"
          /\ Readable(post.like_count) /\ Readable(post.comment_count)
          => score = [kind |-> "num", den |-> 1,
                      num |-> Counted(post.like_count) + Counted(post.comment_count) * 5]
       /\ score_args.platform = "linkedin"
          /\ Readable(post.likes) /\ Readable(post.comments) /\ Readable(post.shares)
          => score = [kind |-> "num", den |-> 1,
                      num |-> Counted(post.likes) + Counted(post.comments) * 3
                              + Counted(post.shares) * 5]
       /\ score_args.platform = "youtube"
          /\ Readable(post.like_count) /\ Readable(post.comment_count)
          /\ Readable(post.view_count)
          => /\ score.kind = "num"
             /\ score.num * (IF Counted(post.view_count) > 1
                             THEN Counted(post.view_count) ELSE 1)
                = (Counted(post.like_count) * 2 + Counted(post.comment_count) * 3)
                  * 1000 * score.den

\* an instagram post with likes, whose comments weigh 5 each
C29_Witness ==
    /\ score_args.platform = "instagram"
    /\ score_args.post.like_count = IntValue(2)
    /\ score_args.post.comment_count = IntValue(7)
    /\ score = [kind |-> "num", num |-> 37, den |-> 1]

\* the metrics the platform's branch adds up (view_count is read apart)
AddedMetrics(post, platform) ==
    CASE platform = "youtube" -> { post.like_count, post.comment_count }
      [] platform = "twitter" -> { post.like_count, post.retweet_count, post.reply_count }
      [] platform = "instagram" -> { post.like_count, post.comment_count }
      [] platform = "linkedin" -> { post.likes, post.comments, post.shares }
      [] OTHER -> {}

KnownPlatforms == { "youtube", "twitter", "instagram", "linkedin" }

\* C28: scoring never errors and always returns a number; for a post of an unknown
\* platform, and for a post one of whose metrics is not a number, that number is 0.
C28_UnreadableScoresZero ==
    score # NoScore =>
       /\ score.kind = "num"
       /\ score_args.platform \notin KnownPlatforms => score = ZeroScore
       /\ (\E v \in AddedMetrics(score_args.post, score_args.platform) : v.kind = "str")
             => score = ZeroScore

\* what holds of the posts with a metric that is not a number: the score is 0
\* unless every metric the branch adds up is a string
C28_ZeroUnlessAllStrings ==
    score # NoScore =>
       /\ score_args.platform \notin KnownPlatforms => score = ZeroScore
       /\ (\E v \in AddedMetrics(score_args.post, score_args.platform) : v.kind = "str")
          /\ (\E v \in AddedMetrics(score_args.post, score_args.platform) : v.kind # "str")
             => score = ZeroScore
       /\ score_args.platform = "youtube"
          /\ (\E v \in AddedMetrics(score_args.post, score_args.platform) : v.kind = "str")
             => score = ZeroScore

\* the selected entries of a platform
SelectedOf(platform) ==
    { i \in 1..Len(viral_posts) : viral_posts[i].platform = platform }

\* whether the post of this url is selected
Selected(url) == \E i \in 1..Len(viral_posts) : viral_posts[i].url = url

\* C26: the selection holds at most 3 posts of a platform and at most 10 posts,
\* is sorted by non-increasing score, holds only posts with a score above 0, and
\* omits no post of a platform of which it includes a post with a lower score.
C26_SelectionPolicy ==
    rank_step # "call" =>
       /\ \A p \in KnownPlatforms : Cardinality(SelectedOf(p)) <= 3
       /\ Len(viral_posts) <= 10
       /\ \A i, j \in 1..Len(viral_posts) :
             i < j => ~ScoreGT(viral_posts[j].engagement_score, viral_posts[i].engagement_score)
       /\ \A i \in 1..Len(viral_posts) : viral_posts[i].engagement_score.num > 0
       /\ \A p \in KnownPlatforms : \A k \in 1..Len(rank_input[p]) : \A i \in SelectedOf(p) :
             ~Selected(rank_input[p][k].url)
             /\ calculate_engagement_score(rank_input[p][k], p).kind = "num"
             => ~ScoreGT(calculate_engagement_score(rank_input[p][k], p),
                         viral_posts[i].engagement_score)

\* no post of the input is scored with a string
NumericScores ==
    \A p \in KnownPlatforms : ~comparison_raises(rank_input[p], p)

\* the selection policy holds whenever every score is a number
C26_PolicyForNumericScores == NumericScores => C26_SelectionPolicy

SameScore(a, b) == ~ScoreGT(a, b) /\ ~ScoreGT(b, a)

\* where the loops meet a post: the rank of its platform in the loop, then its
\* place in the platform's list
PlatformRank(p) == CHOOSE i \in 1..Len(PlatformOrder) : PlatformOrder[i] = p

PlaceOf(p, url) == CHOOSE k \in 1..Len(rank_input[p]) : rank_input[p][k].url = url

SeenBefore(e, f) ==
    \/ PlatformRank(e.platform) < PlatformRank(f.platform)
    \/ /\ e.platform = f.platform
       /\ PlaceOf(e.platform, e.url) < PlaceOf(f.platform, f.url)

\* C27: among posts with equal score the one met earlier ranks first: two selected
\* posts of equal score stand in the order in which they were met, and a post left
\* out of its platform's cut was met later than every selected post of that
\* platform with the same score; a second call with the same input returns the
\* same selection in the same order.
C27_FirstSeenTieBreak ==
    /\ [](rank_step # "call" =>
            /\ \A i, j \in 1..Len(viral_posts) :
                  i < j /\ SameScore(viral_posts[i].engagement_score,
                                     viral_posts[j].engagement_score)
                  => SeenBefore(viral_posts[i], viral_posts[j])
            /\ \A p \in KnownPlatforms : \A k \in 1..Len(rank_input[p]) :
               \A i \in SelectedOf(p) :
                  ~Selected(rank_input[p][k].url)
                  /\ calculate_engagement_score(rank_input[p][k], p).kind = "num"
                  /\ SameScore(calculate_engagement_score(rank_input[p][k], p),
                               viral_posts[i].engagement_score)
                  => PlaceOf(p, viral_posts[i].url) < k)
    /\ [][rank_step = "returned" /\ rank_step' = "again" => viral_posts' = viral_posts]_vars

\* twelve posts made their platform's cut and ten are selected, twice over: of the
\* four youtube posts the three of equal score were cut to the two met first, and
\* youtube's and twitter's posts of equal score stand in the order of the platforms
C27_Witness ==
    /\ rank_step = "again"
    /\ Len(viral_posts) = 10
    /\ Len(rank_input.linkedin) = 3 /\ Selected("l1") /\ ~Selected("l2")
    /\ Selected("y1") /\ Selected("y3") /\ ~Selected("y4")
    /\ \E i, j \in 1..Len(viral_posts) :
          /\ i < j
          /\ viral_posts[i].url = "y1" /\ viral_posts[j].url = "t1"
          /\ SameScore(viral_posts[i].engagement_score, viral_posts[j].engagement_score)

FullStored == saved.massive_data_collection # << >>

SummaryStored == saved.massive_data_summary # << >>

\* C30: nothing is persisted before the last step of the call, which is taken
\* with all phases resolved, the statistics computed and the completion stamped;
\* that step stores the full record, as it is returned, and then a summary made of
\* the record's metadata and statistics and of totals taken from the statistics,
\* without the data of any phase; whether or not a store raises, the step is taken
\* and the call returns the record.
C30_PersistAfterStatistics ==
    /\ [][saved' # saved
            => /\ cstep = "save" /\ cstep' = "returned"
               /\ phase_log = CollectionPhases
               /\ massive_data.metadata.collection_completed
               /\ massive_data.statistics.total_sources
                     = sum_values(sources_by_type(massive_data))
               /\ massive_data' = massive_data]_vars
    /\ [](FullStored => saved.massive_data_collection = << massive_data >>)
    /\ [](SummaryStored =>
            LET stored == saved.massive_data_summary[1] IN
            /\ FullStored
            /\ DOMAIN stored = {"metadata", "statistics", "summary"}
            /\ stored.metadata = massive_data.metadata
            /\ stored.statistics = massive_data.statistics
            /\ stored.summary =
                  [total_web_sources |-> massive_data.statistics.sources_by_type.web_search,
                   total_social_sources |->
                      massive_data.statistics.sources_by_type.social_media,
                   total_deep_sources |->
                      massive_data.statistics.sources_by_type.deep_navigation,
                   total_extracted_content |->
                      massive_data.statistics.sources_by_type.extracted_content,
                   total_content_length |-> massive_data.statistics.total_content_length])
    /\ [](cstep = "save" => ENABLED SaveMassiveJson)
    /\ [](cstep = "returned" /\ "salvar_etapa" \notin raised_in
            => FullStored /\ SummaryStored)
    /\ [](cstep = "returned" => massive_data.metadata.collection_completed)

\* the call returned a record with sources after the store of the summary raised:
\* the full record is stored, the summary is not
C30_Witness ==
    /\ cstep = "returned"
    /\ "salvar_etapa" \in raised_in
    /\ FullStored
    /\ ~SummaryStored
    /\ massive_data.statistics.total_sources > 0
    /\ massive_data.extracted_content # << >>

\* C31: in a session that has no collection report, analyze_and_synthesize
\* returns (it does not raise) a record with success = false and an error,
\* with no study phase, after no generation call, and it leaves the synthesis
\* file and everything outside the synthesis as they were.
C31_NoReportFailsSynthesisOnly ==
    /\ []((syn_step = "returned" /\ ~collection_report.exists) =>
            /\ synthesis_results.success = FALSE
            /\ synthesis_results.error # ""
            /\ synthesis_results.study_phases = << >>
            /\ synthesis_results.synthesis_json_path = "None"
            /\ generate_calls = 0)
    /\ [][(syn_step = "call" /\ ~collection_report.exists) =>
            /\ syn_step' = "returned"
            /\ synthesis_file' = synthesis_file
            /\ UNCHANGED nonSynthVars]_vars

\* a call has returned in a session without a collection report that held an
\* earlier synthesis
C31_Witness ==
    /\ syn_step = "returned"
    /\ ~collection_report.exists
    /\ synthesis_file = PriorSynthesis
    /\ synthesis_results.error = "FileNotFoundError"

\* C32: in a module's attempt loop a backoff wait follows every failed attempt
\* that is followed by another attempt, and neither the last attempt nor an
\* accepted one: before attempt k+1 there were k waits, a wait is entered only
\* after a failed attempt that is not the last, and when the loop is over after
\* k attempts (k <= 3) there were exactly k-1 waits.
C32_BackoffBetweenAttempts ==
    /\ pc = "generate" => sleeps = calls /\ calls < MaxAttempts
    /\ pc = "backoff" =>
          /\ calls < MaxAttempts
          /\ sleeps = calls - 1
          /\ ~ValidContent(content)
    /\ pc = "save" => calls \in 1..MaxAttempts /\ sleeps = calls - 1

\* the second attempt of a module was accepted after one wait, and the loop is over
C32_Witness ==
    /\ pc = "save"
    /\ calls = 2
    /\ sleeps = 1
    /\ raises = 1
    /\ ValidContent(content)

\* the three attempts of a module failed, after two waits
C32_WitnessExhausted ==
    /\ pc = "save"
    /\ calls = MaxAttempts
    /\ sleeps = MaxAttempts - 1
    /\ ~ValidContent(content)

C33_WitnessNothingLoaded ==
    /\ cpc = "returned"
    /\ compile_result.error = "AttributeError"
    /\ \E m \in ModuleSet : files[m] # NoFile

\* the modules the generator reported as generated
Generated == {results.modules_generated[i] : i \in 1..Len(results.modules_generated)}

\* C34: when generate_all_modules has returned, the artifact of every module
\* in modules_generated is one the compiler's loader accepts: non-empty and
\* longer than 100 characters after trimming.
C34_GeneratedArtifactsLoad ==
    pc = "done" => \A m \in Generated : Loadable(files[m])

\* without any fault of the store, a module was counted as generated whose
\* artifact is the text of the last attempt, exactly 100 characters after
\* trimming, and the loader does not accept it
C34_HundredCharsArtifact ==
    /\ pc = "done"
    /\ ioFaults = 0
    /\ \E m \in Generated :
        /\ files[m].kind = "generated"
        /\ files[m].stripped = ForcedFallbackLen
        /\ ~Loadable(files[m])

\* without any fault of the store, the compilation that follows the
\* generation compiles a report without a module that was reported as
\* generated
C34_GeneratedModuleNotCompiled ==
    /\ pc = "done"
    /\ cpc = "save_final"
    /\ ioFaults = 0
    /\ \E m \in Generated : m \notin available_modules

\* the modules the generator recorded as failed
Failed == {results.modules_failed[i].module : i \in 1..Len(results.modules_failed)}

\* C35: the results generate_all_modules returns are consistent:
\* modules_generated has no duplicates and successful_modules is its length,
\* failed_modules is the length of modules_failed, no module is in both lists,
\* and successful_modules + failed_modules = total_modules.
C35_ResultsConsistent ==
    pc = "done" =>
        /\ Cardinality(Generated) = Len(results.modules_generated)
        /\ results.successful_modules = Len(results.modules_generated)
        /\ results.failed_modules = Len(results.modules_failed)
        /\ Generated \cap Failed = {}
        /\ results.successful_modules + results.failed_modules = results.total_modules

\* the returned results have a module in both lists
C35_GeneratedAndFailed ==
    /\ pc = "done"
    /\ Generated \cap Failed # {}
    /\ results.successful_modules + results.failed_modules = results.total_modules + 1

\* what of the consistency holds in every returned record: the list of
\* generated modules has no duplicates and both counters are the lengths of
\* their lists
C35_CountersMatchLists ==
    pc = "done" =>
        /\ Cardinality(Generated) = Len(results.modules_generated)
        /\ results.successful_modules = Len(results.modules_generated)
        /\ results.failed_modules = Len(results.modules_failed)

\* the modules that have a section in a report
SectionModules(report) == {report.sections[i].module : i \in 1..Len(report.sections)}

\* C36: the compiler's modules_order lists exactly the 16 module names of the
\* generator's modules_config, each once and in the same order; so the report
\* compiled after a generation has a section for every module the generator
\* reported as generated, and no section for a module the generator does not
\* produce.
C36_SameClosedSet ==
    /\ ModulesOrderNames = ModuleNames
    /\ Len(ModuleNames) = 16
    /\ Cardinality({ModuleNames[i] : i \in 1..Len(ModuleNames)}) = 16
    /\ modules_order = modules_config
    /\ (pc = "done" /\ relatorio_final.writer = "compiler") =>
          /\ Generated \subseteq SectionModules(relatorio_final)
          /\ SectionModules(relatorio_final) \subseteq ModuleSet

\* a generation that reported every module as generated was followed by a
\* successful compilation
C36_Witness ==
    /\ pc = "done"
    /\ Generated = ModuleSet
    /\ cpc = "returned"
    /\ compile_result.success
    /\ relatorio_final.writer = "compiler"
    /\ Len(relatorio_final.sections) = N

\* C37: when analyze_and_synthesize has returned success = true, the
\* synthesis file holds the synthesis the record carries (the generated one,
\* or a fallback when the generation call raised or returned no JSON) and
\* synthesis_json_path names that file.
C37_SuccessMeansSaved ==
    (syn_step = "returned" /\ synthesis_results.success) =>
        /\ synthesis_results.synthesis_json_path = SynthesisPath
        /\ synthesis_file = synthesis_results.synthesis_json
        /\ synthesis_file.kind \in { "ai", "basic", "fallback" }

\* success = true was returned with no path, and the synthesis file is the
\* one an earlier run left or a truncated one
C37_SuccessWithoutFile ==
    /\ syn_step = "returned"
    /\ synthesis_results.success
    /\ synthesis_results.synthesis_json_path = "None"
    /\ synthesis_file # synthesis_results.synthesis_json

\* what holds of every successful return: a path is returned only for a file
\* that holds the record's synthesis, and the record's synthesis is a
\* generated one or a fallback
C37_PathMeansSaved ==
    (syn_step = "returned" /\ synthesis_results.success) =>
        /\ synthesis_results.synthesis_json.kind \in { "ai", "basic", "fallback" }
        /\ synthesis_results.synthesis_json_path # "None" =>
              /\ synthesis_results.synthesis_json_path = SynthesisPath
              /\ synthesis_file = synthesis_results.synthesis_json

\* the posts listed in capture_results.viral_posts
CapturedPosts ==
    {capture_results.viral_posts[k].post : k \in 1..Len(capture_results.viral_posts)}

\* the posts listed in capture_results.errors with error e
ErrorPosts(e) ==
    {capture_results.errors[k].post : k \in {j \in 1..Len(capture_results.errors) :
                                               capture_results.errors[j].error = e}}

\* the posts whose url passes the test of the loop
ValidUrlPosts == {i \in 1..Len(shot_posts) : url_check(shot_posts[i].url) = "valid"}

\* C38: when capture_viral_posts_screenshots has returned without a critical
\* error, screenshots_captured + failed_captures = total_posts_analyzed,
\* viral_posts lists exactly the posts whose capture succeeded, once each, and
\* every post was dealt with: one with an invalid url was counted as failed,
\* and every later post with a valid url was attempted (captured or listed as
\* a failed capture).
C38_CaptureCountsAddUp ==
    (shot_step = "returned" /\ ~capture_results.critical_error) =>
        /\ capture_results.total_posts_analyzed = Len(shot_posts)
        /\ capture_results.screenshots_captured + capture_results.failed_captures
             = capture_results.total_posts_analyzed
        /\ capture_results.screenshots_captured = Len(capture_results.viral_posts)
        /\ Cardinality(CapturedPosts) = Len(capture_results.viral_posts)
        /\ capture_results.failed_captures = Len(capture_results.errors)
        /\ CapturedPosts \subseteq ValidUrlPosts
        /\ ValidUrlPosts = CapturedPosts \cup ErrorPosts("capture_failed")
        /\ CapturedPosts \cap ErrorPosts("capture_failed") = {}
        /\ (1..Len(shot_posts)) \ ValidUrlPosts
             = ErrorPosts("invalid_url") \cup ErrorPosts("raised")

\* the first post had an invalid url and the second was captured
C38_Witness ==
    /\ shot_step = "returned"
    /\ ~capture_results.critical_error
    /\ Len(shot_posts) = 2
    /\ url_check(shot_posts[1].url) # "valid"
    /\ CapturedPosts = {2}
    /\ capture_results.failed_captures = 1
    /\ capture_results.screenshots_captured = 1

C39_WitnessCritical ==
    /\ shot_step = "returned"
    /\ capture_results.critical_error
    /\ capture_results.session_directory
    /\ drivers_opened = 0
    /\ driver = "None"

\* the results of the enhanced search and of the production search in wd
MainWebResults(wd) ==
    Len(wd.enhanced_search_results.exa_results)
    + Len(wd.enhanced_search_results.google_results)
    + Len(wd.enhanced_search_results.other_results)
    + Len(wd.production_search_results.results)

\* the results of the additional queries in wd
AdditionalWebResults(wd) == CountAll(wd.additional_queries_results)

\* C40: once the statistics are computed, the web-search count is the number
\* of results the record's web-search data holds: those of the enhanced
\* search, of the production search and of the additional queries.
C40_WebSearchCountsAllResults ==
    StatisticsComputed =>
        massive_data.statistics.sources_by_type.web_search
          = MainWebResults(massive_data.web_search_data)
            + AdditionalWebResults(massive_data.web_search_data)

\* the call returned a record whose only web results are those of an
\* additional query, with a web-search count of 0
C40_AdditionalResultsUncounted ==
    /\ cstep = "returned"
    /\ MainWebResults(massive_data.web_search_data) = 0
    /\ AdditionalWebResults(massive_data.web_search_data) > 0
    /\ massive_data.statistics.sources_by_type.web_search = 0

\* what the web-search count is in every record: the number of results of
\* the enhanced search and of the production search
C40_CountsMainResults ==
    StatisticsComputed =>
        massive_data.statistics.sources_by_type.web_search
          = MainWebResults(massive_data.web_search_data)

====
